---- MODULE Spec2Model ----
(***************************************************************************)
(* A model of the content-extraction core of web-to-epub:                  *)
(*   internal/extractor (types.go, strategies.go, content.go),             *)
(*   internal/formatter (HTMLNormalizer) and internal/output (sanitizeHTML).*)
(*                                                                         *)
(* Strings are sequences of one-character strings, so that serialization,  *)
(* trimming, substring tests and regular expressions act on characters.    *)
(* A document is a set of live nodes over a preorder node table; removing  *)
(* a node removes its identifier from the live set.                        *)
(***************************************************************************)
EXTENDS Integers, Sequences, FiniteSets, TLC

(***************************************************************************)
(* Vocabulary: the tag, class and attribute names the code and the sample  *)
(* documents use, as character sequences.                                  *)
(***************************************************************************)
W ==
  [
    html |-> <<"h","t","m","l">>,
    head |-> <<"h","e","a","d">>,
    title |-> <<"t","i","t","l","e">>,
    body |-> <<"b","o","d","y">>,
    div |-> <<"d","i","v">>,
    article |-> <<"a","r","t","i","c","l","e">>,
    section |-> <<"s","e","c","t","i","o","n">>,
    main |-> <<"m","a","i","n">>,
    p |-> <<"p">>,
    td |-> <<"t","d">>,
    blockquote |-> <<"b","l","o","c","k","q","u","o","t","e">>,
    nav |-> <<"n","a","v">>,
    a |-> <<"a">>,
    script |-> <<"s","c","r","i","p","t">>,
    style |-> <<"s","t","y","l","e">>,
    noscript |-> <<"n","o","s","c","r","i","p","t">>,
    h1 |-> <<"h","1">>,
    h2 |-> <<"h","2">>,
    span |-> <<"s","p","a","n">>,
    aside |-> <<"a","s","i","d","e">>,
    header |-> <<"h","e","a","d","e","r">>,
    footer |-> <<"f","o","o","t","e","r">>,
    content |-> <<"c","o","n","t","e","n","t">>,
    post_content |-> <<"p","o","s","t","-","c","o","n","t","e","n","t">>,
    entry_content |-> <<"e","n","t","r","y","-","c","o","n","t","e","n","t">>,
    story_content |-> <<"s","t","o","r","y","-","c","o","n","t","e","n","t">>,
    chapter_content |-> <<"c","h","a","p","t","e","r","-","c","o","n","t","e","n","t">>,
    article_content |-> <<"a","r","t","i","c","l","e","-","c","o","n","t","e","n","t">>,
    content_body |-> <<"c","o","n","t","e","n","t","-","b","o","d","y">>,
    post_body |-> <<"p","o","s","t","-","b","o","d","y">>,
    text_content |-> <<"t","e","x","t","-","c","o","n","t","e","n","t">>,
    post |-> <<"p","o","s","t">>,
    story |-> <<"s","t","o","r","y">>,
    main_content |-> <<"m","a","i","n","-","c","o","n","t","e","n","t">>,
    ad |-> <<"a","d">>,
    ads |-> <<"a","d","s">>,
    advertisement |-> <<"a","d","v","e","r","t","i","s","e","m","e","n","t">>,
    sidebar |-> <<"s","i","d","e","b","a","r">>,
    side_bar |-> <<"s","i","d","e","-","b","a","r">>,
    comments |-> <<"c","o","m","m","e","n","t","s">>,
    comment_section |-> <<"c","o","m","m","e","n","t","-","s","e","c","t","i","o","n">>,
    share |-> <<"s","h","a","r","e">>,
    social |-> <<"s","o","c","i","a","l">>,
    sharing |-> <<"s","h","a","r","i","n","g">>,
    related |-> <<"r","e","l","a","t","e","d">>,
    recommended |-> <<"r","e","c","o","m","m","e","n","d","e","d">>,
    navigation |-> <<"n","a","v","i","g","a","t","i","o","n">>,
    breadcrumb |-> <<"b","r","e","a","d","c","r","u","m","b">>,
    author_bio |-> <<"a","u","t","h","o","r","-","b","i","o">>,
    author_info |-> <<"a","u","t","h","o","r","-","i","n","f","o">>,
    menu |-> <<"m","e","n","u">>,
    comment |-> <<"c","o","m","m","e","n","t">>,
    chapter_title |-> <<"c","h","a","p","t","e","r","-","t","i","t","l","e">>,
    entry_title |-> <<"e","n","t","r","y","-","t","i","t","l","e">>,
    post_title |-> <<"p","o","s","t","-","t","i","t","l","e">>,
    story_title |-> <<"s","t","o","r","y","-","t","i","t","l","e">>,
    class |-> <<"c","l","a","s","s">>,
    id |-> <<"i","d">>,
    role |-> <<"r","o","l","e">>,
    reading |-> <<"r","e","a","d","i","n","g">>
  ]

(***************************************************************************)
(* Strings.                                                                *)
(***************************************************************************)
WS == {" ", "\t", "\n", "\r"}

MinOf(S) == CHOOSE m \in S : \A k \in S : m <= k

MaxOf(S) == CHOOSE m \in S : \A k \in S : m >= k

\* strings.TrimSpace: drop leading and trailing white space.
TrimSpace(s) ==
  LET keep == {i \in 1..Len(s) : s[i] \notin WS}
  IN  IF keep = {} THEN <<>> ELSE SubSeq(s, MinOf(keep), MaxOf(keep))

\* strings.Contains
Contains(s, sub) ==
  \E i \in 1..(Len(s) - Len(sub) + 1) : SubSeq(s, i, i + Len(sub) - 1) = sub

\* n copies of character c
Rep(c, n) == [i \in 1..n |-> c]

RECURSIVE Flatten(_)
Flatten(ss) == IF ss = <<>> THEN <<>> ELSE Head(ss) \o Flatten(Tail(ss))

RECURSIVE SortedSeq(_)
SortedSeq(S) ==
  IF S = {} THEN <<>> ELSE LET m == MinOf(S) IN <<m>> \o SortedSeq(S \ {m})

(***************************************************************************)
(* Documents (goquery.Document over golang.org/x/net/html nodes).          *)
(* nodes: the node table in document order; nodes[i].parent = 0 for the    *)
(* children of the document node.  alive: the nodes still in the tree.     *)
(***************************************************************************)
Elem(tag, class, id, parent) ==
  [kind |-> "elem", tag |-> tag, class |-> class, id |-> id, role |-> <<>>,
   text |-> <<>>, parent |-> parent]

Text(text, parent) ==
  [kind |-> "text", tag |-> <<>>, class |-> <<>>, id |-> <<>>, role |-> <<>>,
   text |-> text, parent |-> parent]

\* the children of node i (0: of the document node), in document order
Children(doc, i) ==
  SortedSeq({j \in doc.alive : doc.nodes[j].parent = i})

RECURSIVE IsAncestor(_, _, _)
\* a is a proper ancestor of n
IsAncestor(doc, a, n) ==
  LET p == doc.nodes[n].parent
  IN  IF p = 0 THEN FALSE
      ELSE IF p = a THEN TRUE
      ELSE IsAncestor(doc, a, p)

\* the live proper descendants of node i (0: every live node)
Descendants(doc, i) ==
  IF i = 0 THEN doc.alive
  ELSE {j \in doc.alive : j > i /\ IsAncestor(doc, i, j)}

Subtree(doc, i) == {i} \cup Descendants(doc, i)

\* html.Render of one attribute; the sample documents write class, id, role
\* in that order
RenderAttr(name, val) ==
  IF val = <<>> THEN <<>> ELSE <<" ">> \o name \o <<"=", "\"">> \o val \o <<"\"">>

RECURSIVE RenderNode(_, _)
\* html.Render: the outer markup of node i
RenderNode(doc, i) ==
  LET n == doc.nodes[i]
      kids == Children(doc, i)
  IN  IF n.kind = "text" THEN n.text
      ELSE <<"<">> \o n.tag \o RenderAttr(W.class, n.class) \o RenderAttr(W.id, n.id)
             \o RenderAttr(W.role, n.role) \o <<">">>
             \o Flatten([k \in 1..Len(kids) |-> RenderNode(doc, kids[k])])
             \o <<"<", "/">> \o n.tag \o <<">">>

\* Selection.Html: the inner markup of node i (0: of the whole document)
Html(doc, i) ==
  LET kids == Children(doc, i)
  IN  Flatten([k \in 1..Len(kids) |-> RenderNode(doc, kids[k])])

\* Selection.Text: the concatenated text nodes below (and at) node i
TextOf(doc, i) ==
  LET ts == SortedSeq({j \in Subtree(doc, i) \cap doc.alive : doc.nodes[j].kind = "text"})
  IN  Flatten([k \in 1..Len(ts) |-> doc.nodes[ts[k]].text])

(***************************************************************************)
(* Selectors (cascadia): a compound selector tag.class#id, each part       *)
(* optional; a selector string is a comma-separated list of them, and the  *)
(* empty list is the empty string.                                         *)
(***************************************************************************)
Sel(tag, class, id) == [tag |-> tag, class |-> class, id |-> id, role |-> <<>>]

\* the attribute selector [role='r']
SelRole(r) == [tag |-> <<>>, class |-> <<>>, id |-> <<>>, role |-> r]

\* the class attribute holds white-space separated class names
HasClass(attr, c) ==
  \E i \in 1..(Len(attr) - Len(c) + 1) :
     /\ SubSeq(attr, i, i + Len(c) - 1) = c
     /\ (i = 1 \/ attr[i - 1] \in WS)
     /\ (i + Len(c) - 1 = Len(attr) \/ attr[i + Len(c)] \in WS)

MatchesCompound(n, c) ==
  /\ n.kind = "elem"
  /\ (c.tag = <<>> \/ n.tag = c.tag)
  /\ (c.class = <<>> \/ HasClass(n.class, c.class))
  /\ (c.id = <<>> \/ n.id = c.id)
  /\ (c.role = <<>> \/ n.role = c.role)

Matches(n, sel) == \E k \in 1..Len(sel) : MatchesCompound(n, sel[k])

\* Selection.Find: the descendants of the nodes in `roots` that match, in
\* document order
Find(doc, roots, sel) ==
  SortedSeq({j \in doc.alive :
               /\ Matches(doc.nodes[j], sel)
               /\ \E r \in roots : j \in Descendants(doc, r)})

\* Selection.Remove: detach the nodes (with their subtrees) from their tree
Remove(doc, ns) ==
  [doc EXCEPT !.alive = @ \ UNION {Subtree(doc, ns[k]) : k \in 1..Len(ns)}]

(***************************************************************************)
(* Selections over a heap of trees.  A strategy call sees the tree it was  *)
(* handed ("orig") and at most one copy of it ("clone"); a selection names *)
(* the tree its nodes live in, so Remove acts on that tree alone.          *)
(***************************************************************************)
NewHeap(doc) == [orig |-> doc, clone |-> doc]

Selection(tree, nodes) == [tree |-> tree, nodes |-> nodes]

AsSet(seq) == {seq[k] : k \in 1..Len(seq)}

\* doc.Find / Selection.Find
FindIn(heap, sel, selector) ==
  Selection(sel.tree, Find(heap[sel.tree], AsSet(sel.nodes), selector))

\* Selection.Remove
RemoveIn(heap, sel) == [heap EXCEPT ![sel.tree] = Remove(@, sel.nodes)]

\* Selection.Html, serializing the last node of the selection instead
HtmlInLast(heap, sel) == Html(heap[sel.tree], sel.nodes[Len(sel.nodes)])

\* Selection.Html: the inner markup of the first node of the selection
HtmlIn(heap, sel) == Html(heap[sel.tree], sel.nodes[1])

\* Selection.Clone, as written by a caller that forgets the copy: the
\* selection keeps pointing into the tree it was taken from
CloneAliased(heap, sel) == [heap |-> heap, sel |-> sel]

\* Selection.Clone: a deep copy of the selected nodes in a tree of its own
Clone(heap, sel) ==
  [heap |-> [heap EXCEPT !.clone = heap[sel.tree]],
   sel  |-> Selection("clone", sel.nodes)]

\* the document node as a selection
Root == Selection("orig", <<0>>)

ScriptSelector ==
  <<Sel(W.script, <<>>, <<>>), Sel(W.style, <<>>, <<>>), Sel(W.noscript, <<>>, <<>>)>>

\* a strategy's return: content and error ("" is nil); with it, for the
\* record, the node the content was serialized from (0: none), the tree the
\* strategy was handed as the call leaves it, and the sub-strategy calls made
Return(content, err, node, doc) ==
  [content |-> content, err |-> err, node |-> node, doc |-> doc, calls |-> <<>>]

(***************************************************************************)
(* CSSSelectorStrategy                                                     *)
(***************************************************************************)
RECURSIVE RemoveEach(_, _, _)
\* for _, sel := range selectors { content.Find(sel).Remove() }
RemoveEach(heap, content, selectors) ==
  IF selectors = <<>> THEN heap
  ELSE RemoveEach(RemoveIn(heap, FindIn(heap, content, Head(selectors))),
                  content, Tail(selectors))

\* html, err := content.Html(); return strings.TrimSpace(html), nil
CSSSerialize(content, heap) ==
  Return(TrimSpace(HtmlIn(heap, content)), "", content.nodes[1], heap.orig)

\* if opts != nil && opts.CleanScripts { content.Find("script, style, noscript").Remove() }
CSSCleanScripts(opts, content, heap) ==
  CSSSerialize(content,
               IF opts.CleanScripts
               THEN RemoveIn(heap, FindIn(heap, content, ScriptSelector))
               ELSE heap)

\* content = content.Clone(), then the exclusion loop
CSSExclude(s, opts, c) ==
  CSSCleanScripts(opts, c.sel, RemoveEach(c.heap, c.sel, s.ExcludeSelectors))

\* content := doc.Find(s.Selector); if content.Length() == 0 { ... }
CSSFound(s, doc, opts, found) ==
  IF Len(found.nodes) = 0
  THEN Return(<<>>, "selector matched no elements", 0, doc)
  ELSE CSSExclude(s, opts, Clone(NewHeap(doc), found))

CSSSelectorStrategy_Extract(s, doc, opts) ==
  IF s.Selector = <<>> THEN Return(<<>>, "no CSS selector configured", 0, doc)
  ELSE CSSFound(s, doc, opts, FindIn(NewHeap(doc), Root, s.Selector))

(***************************************************************************)
(* TextDensityStrategy                                                     *)
(* Scores are float64 in the code; the model keeps them as exact fractions *)
(* [n, d] and compares by cross-multiplication.                            *)
(***************************************************************************)
Frac(n, d) == [n |-> n, d |-> d]

RECURSIVE QuotientGe(_, _, _, _)
\* a/b >= c/d for a, c >= 0 and b, d > 0, by the integer parts and then the
\* remainders, so that no product leaves the range of the integers
QuotientGe(a, b, c, d) ==
  IF a \div b # c \div d THEN a \div b > c \div d
  ELSE IF c % d = 0 THEN TRUE
  ELSE IF a % b = 0 THEN FALSE
  ELSE QuotientGe(d, c % d, b, a % b)

FracGe(a, b) == QuotientGe(a.n, a.d, b.n, b.d)

FracGt(a, b) == ~FracGe(b, a)

FracMul(a, n, d) == Frac(a.n * n, a.d * d)

DefaultMinDensity == Frac(3, 10)

DefaultMinBlockSize == 100

LongTextLen == 500

VeryLongTextLen == 1000

ManyParagraphs == 2

\* the tag list without "p"
contentTagsNoP == {W.div, W.article, W.section, W.main, W.td, W.blockquote}

contentTags == {W.div, W.article, W.section, W.main, W.p, W.td, W.blockquote}

skipPatterns ==
  <<W.nav, W.menu, W.sidebar, W.footer, W.header, W.ad, W.comment, W.share, W.social>>

Upper == <<"A","B","C","D","E","F","G","H","I","J","K","L","M",
           "N","O","P","Q","R","S","T","U","V","W","X","Y","Z">>

Lower == <<"a","b","c","d","e","f","g","h","i","j","k","l","m",
           "n","o","p","q","r","s","t","u","v","w","x","y","z">>

\* strings.ToLower
ToLower(s) ==
  [i \in 1..Len(s) |->
     IF \E k \in 1..26 : Upper[k] = s[i]
     THEN Lower[CHOOSE k \in 1..26 : Upper[k] = s[i]]
     ELSE s[i]]

\* score := density, times 1.2, 1.3 and 1.5 as the candidate earns them
Score(textLen, htmlLen, nP) ==
  FracMul(FracMul(FracMul(Frac(textLen, htmlLen),
                          IF textLen > LongTextLen THEN 12 ELSE 1,
                          IF textLen > LongTextLen THEN 10 ELSE 1),
                  IF textLen > VeryLongTextLen THEN 13 ELSE 1,
                  IF textLen > VeryLongTextLen THEN 10 ELSE 1),
          IF nP > ManyParagraphs THEN 15 ELSE 1,
          IF nP > ManyParagraphs THEN 10 ELSE 1)

\* the tag and class/id tests at the head of the Each callback
Skipped(n) ==
  \/ n.tag \notin contentTags
  \/ \E k \in 1..Len(skipPatterns) :
        Contains(ToLower(n.class \o <<" ">> \o n.id), skipPatterns[k])

CandidateOf(n, textLen, htmlLen, nP) ==
  [skip    |-> Skipped(n),
   textLen |-> textLen,
   htmlLen |-> htmlLen,
   density |-> Frac(textLen, htmlLen),
   score   |-> Score(textLen, htmlLen, nP)]

\* the body of the Each callback up to the score, for element i
Candidate(doc, i) ==
  CandidateOf(doc.nodes[i], Len(TrimSpace(TextOf(doc, i))), Len(Html(doc, i)),
              Len(Find(doc, {i}, <<Sel(W.p, <<>>, <<>>)>>)))

\* the comparison that replaces the best block, written with >= : a tie
\* would move the winner to the later candidate
BetterOrEqual(c, bestScore, minDensity) ==
  FracGe(c.score, bestScore) /\ FracGe(c.density, minDensity)

\* if score > bestScore && density >= minDensity
Better(c, bestScore, minDensity) ==
  FracGt(c.score, bestScore) /\ FracGe(c.density, minDensity)

RECURSIVE EachBlock(_, _, _, _, _, _, _)

\* one call of the Each callback: c is the candidate of element all[k]
EachTurn(doc, all, k, minDensity, minSize, bestNode, bestScore, c) ==
  IF c.skip \/ c.textLen < minSize \/ c.htmlLen = 0
  THEN EachBlock(doc, all, k + 1, minDensity, minSize, bestNode, bestScore)
  ELSE IF Better(c, bestScore, minDensity)
  THEN EachBlock(doc, all, k + 1, minDensity, minSize, all[k], c.score)
  ELSE EachBlock(doc, all, k + 1, minDensity, minSize, bestNode, bestScore)

\* selection.Find("*").Each(...): the traversal from the k-th element on,
\* carrying bestNode (0 is nil) and bestScore
EachBlock(doc, all, k, minDensity, minSize, bestNode, bestScore) ==
  IF k > Len(all) THEN bestNode
  ELSE EachTurn(doc, all, k, minDensity, minSize, bestNode, bestScore,
                Candidate(doc, all[k]))

AnyElement == <<Sel(<<>>, <<>>, <<>>)>>

findBestBlockByDensity(doc, selection, minDensity, minSize) ==
  EachBlock(doc, Find(doc, AsSet(selection), AnyElement), 1,
            minDensity, minSize, 0, Frac(0, 1))

\* newDoc := goquery.NewDocumentFromNode(bestBlock): a selection on the node
\* itself, in the tree it was found in; then the clean-up and serialization
DensityHtml(newDoc, heap) ==
  Return(TrimSpace(HtmlIn(heap, newDoc)), "", newDoc.nodes[1], heap.orig)

DensitySerialize(doc, opts, newDoc) ==
  DensityHtml(newDoc,
              IF opts.CleanScripts
              THEN RemoveIn(NewHeap(doc), FindIn(NewHeap(doc), newDoc, ScriptSelector))
              ELSE NewHeap(doc))

DensityBest(doc, opts, bestBlock) ==
  IF bestBlock = 0
  THEN Return(<<>>, "no suitable content block found", 0, doc)
  ELSE DensitySerialize(doc, opts, Selection("orig", <<bestBlock>>))

TextDensityStrategy_Extract(s, doc, opts) ==
  IF Len(Find(doc, {0}, <<Sel(W.body, <<>>, <<>>)>>)) = 0
  THEN Return(<<>>, "no body element found", 0, doc)
  ELSE DensityBest(doc, opts,
         findBestBlockByDensity(
           doc, Find(doc, {0}, <<Sel(W.body, <<>>, <<>>)>>),
           IF s.MinDensityScore.n <= 0 THEN DefaultMinDensity ELSE s.MinDensityScore,
           IF s.MinBlockSize <= 0 THEN DefaultMinBlockSize ELSE s.MinBlockSize))

(***************************************************************************)
(* DOMPositionStrategy                                                     *)
(***************************************************************************)
DOMPatterns ==
  << Sel(W.article, W.content, <<>>),
     Sel(W.article, W.post_content, <<>>),
     Sel(W.article, W.entry_content, <<>>),
     Sel(W.article, W.story_content, <<>>),
     Sel(W.article, <<>>, <<>>),
     Sel(W.main, W.content, <<>>),
     Sel(W.main, <<>>, <<>>),
     Sel(<<>>, W.chapter_content, <<>>),
     Sel(<<>>, W.story_content, <<>>),
     Sel(<<>>, W.post_content, <<>>),
     Sel(<<>>, W.entry_content, <<>>),
     Sel(<<>>, W.article_content, <<>>),
     Sel(<<>>, W.content_body, <<>>),
     Sel(<<>>, W.post_body, <<>>),
     Sel(<<>>, W.text_content, <<>>),
     Sel(<<>>, W.content, <<>>),
     Sel(<<>>, W.post, <<>>),
     Sel(<<>>, W.story, <<>>),
     Sel(<<>>, W.article, <<>>),
     Sel(<<>>, <<>>, W.content),
     Sel(<<>>, <<>>, W.main_content),
     Sel(<<>>, <<>>, W.article_content),
     Sel(<<>>, <<>>, W.story_content),
     Sel(<<>>, <<>>, W.post_content),
     SelRole(W.main),
     SelRole(W.article),
     Sel(W.div, W.content, <<>>),
     Sel(W.div, W.main, <<>>) >>

DOMRemovePatterns ==
  << Sel(W.nav, <<>>, <<>>), Sel(W.aside, <<>>, <<>>),
     Sel(W.header, <<>>, <<>>), Sel(W.footer, <<>>, <<>>),
     Sel(<<>>, W.ads, <<>>), Sel(<<>>, W.ad, <<>>), Sel(<<>>, W.advertisement, <<>>),
     Sel(<<>>, W.sidebar, <<>>), Sel(<<>>, W.side_bar, <<>>),
     Sel(<<>>, W.comments, <<>>), Sel(<<>>, W.comment_section, <<>>),
     Sel(<<>>, W.share, <<>>), Sel(<<>>, W.social, <<>>), Sel(<<>>, W.sharing, <<>>),
     Sel(<<>>, W.related, <<>>), Sel(<<>>, W.recommended, <<>>),
     Sel(<<>>, W.navigation, <<>>), Sel(<<>>, W.breadcrumb, <<>>),
     Sel(<<>>, W.author_bio, <<>>), Sel(<<>>, W.author_info, <<>>),
     Sel(W.script, <<>>, <<>>), Sel(W.style, <<>>, <<>>), Sel(W.noscript, <<>>, <<>>) >>

DOMMinLength == 100

\* for _, removePattern := range removePatterns { ... }; html, err := content.Html()
DOMRemoved(content, heap) ==
  [matched |-> TRUE, html |-> TrimSpace(HtmlIn(heap, content)),
   node |-> content.nodes[1], doc |-> heap.orig]

\* content = content.Clone(), then the removal loop
DOMCloned(c) ==
  DOMRemoved(c.sel,
             RemoveEach(c.heap, c.sel,
                        [k \in 1..Len(DOMRemovePatterns) |-> <<DOMRemovePatterns[k]>>]))

DOMFound(doc, found) ==
  IF Len(found.nodes) = 0
  THEN [matched |-> FALSE, html |-> <<>>, node |-> 0, doc |-> doc]
  ELSE DOMCloned(Clone(NewHeap(doc), found))

\* the markup DOMPositionStrategy gets for one pattern; matched is FALSE
\* when the pattern matches nothing
DOMCandidate(doc, pattern) == DOMFound(doc, FindIn(NewHeap(doc), Root, <<pattern>>))

RECURSIVE DOMEachPattern(_, _)

\* one turn of the loop, accepting markup of DOMMinLength characters as well
DOMTurnAtLeast(k, c) ==
  IF c.matched /\ Len(c.html) >= DOMMinLength
  THEN Return(c.html, "", c.node, c.doc)
  ELSE DOMEachPattern(c.doc, k + 1)

\* one turn of the loop over the patterns: c is the candidate of pattern k
DOMTurn(k, c) ==
  IF c.matched /\ Len(c.html) > DOMMinLength
  THEN Return(c.html, "", c.node, c.doc)
  ELSE DOMEachPattern(c.doc, k + 1)

DOMEachPattern(doc, k) ==
  IF k > Len(DOMPatterns)
  THEN Return(<<>>, "no content found using DOM position heuristics", 0, doc)
  ELSE DOMTurn(k, DOMCandidate(doc, DOMPatterns[k]))

DOMPositionStrategy_Extract(s, doc, opts) == DOMEachPattern(doc, 1)

(***************************************************************************)
(* Go's regexp on strings of characters: leftmost-first matching by        *)
(* backtracking.  A pattern is a tree; Ends lists the ends of its matches  *)
(* at one position in the order of preference of the backtracking search,  *)
(* so the first entry is the match regexp reports.                         *)
(***************************************************************************)

\* \w
WordChars == AsSet(Upper) \cup AsSet(Lower) \cup {"0","1","2","3","4","5","6","7","8","9","_"}

\* a literal; fold is the flag (?i), under which the literal is given in lower case
Lit(str, fold) == [t |-> "lit", s |-> str, fold |-> fold]

\* a character class [..], or [^..] when neg; . under (?s) is [^]
Class(cs, neg) == [t |-> "set", cs |-> cs, neg |-> neg]

\* r1 r2 ... rn
Cat(rs) == [t |-> "cat", rs |-> rs]

\* r* and r{min,}; r*? when not greedy
Star(r, min, greedy) == [t |-> "star", r |-> r, min |-> min, greedy |-> greedy]

\* r?
Opt(r) == [t |-> "opt", r |-> r]

\* (r), capturing group n
Group(n, r) == [t |-> "grp", n |-> n, r |-> r]

\* no group has taken part in the match
NoCaps == <<<<>>, <<>>>>

\* the groups of a match continued by a match with groups `later`
MergeCaps(caps, later) == [g \in 1..2 |-> IF later[g] # <<>> THEN later[g] ELSE caps[g]]

\* the matches ys, each after a match with groups caps
After(caps, ys) == [k \in 1..Len(ys) |-> [ys[k] EXCEPT !.caps = MergeCaps(caps, @)]]

\* the matches xs that consumed at least one character after position p
Progress(xs, p) == SelectSeq(xs, LAMBDA x : x.e > p)

\* the match of the empty string at p
EmptyMatch(p) == <<[e |-> p, caps |-> NoCaps]>>

\* the lists of matches that are not empty
NonEmpty(yss) == SelectSeq(yss, LAMBDA ys : ys # <<>>)

\* the position after the longest run of characters of class c from p on
RunEnd(c, s, p) ==
  LET stops == {q \in p..Len(s) : (s[q] \in c.cs) = c.neg}
  IN  IF stops = {} THEN Len(s) + 1 ELSE MinOf(stops)

\* the matches of a repeated character class whose longest run from p ends
\* before position `last`: the longest first when greedy, the shortest first
\* when not
RunEnds(r, p, last) ==
  [k \in 1..(last - p - r.min + 1) |->
     [e |-> IF r.greedy THEN last - k + 1 ELSE p + r.min + k - 1, caps |-> NoCaps]]

RECURSIVE Ends(_, _, _)
\* the matches of pattern r in s that start at position p, best first; e is
\* the position after the match
Ends(r, s, p) ==
  CASE r.t = "lit" ->
         IF /\ p + Len(r.s) - 1 <= Len(s)
            /\ r.s = (IF r.fold THEN ToLower(SubSeq(s, p, p + Len(r.s) - 1))
                      ELSE SubSeq(s, p, p + Len(r.s) - 1))
         THEN EmptyMatch(p + Len(r.s)) ELSE <<>>
    [] r.t = "set" ->
         IF p <= Len(s) /\ ((s[p] \in r.cs) # r.neg) THEN EmptyMatch(p + 1) ELSE <<>>
    [] r.t = "cat" ->
         IF r.rs = <<>> THEN EmptyMatch(p)
         ELSE LET first == Ends(Head(r.rs), s, p)
              IN  Flatten(NonEmpty([k \in 1..Len(first) |->
                     After(first[k].caps, Ends(Cat(Tail(r.rs)), s, first[k].e))]))
    [] r.t = "star" ->
         IF r.r.t = "set" THEN RunEnds(r, p, RunEnd(r.r, s, p))
         ELSE LET one  == Progress(Ends(r.r, s, p), p)
                  more == Flatten(NonEmpty([k \in 1..Len(one) |->
                             After(one[k].caps,
                                   Ends(Star(r.r, IF r.min > 0 THEN r.min - 1 ELSE 0,
                                             r.greedy),
                                        s, one[k].e))]))
                  stop == IF r.min = 0 THEN EmptyMatch(p) ELSE <<>>
              IN  IF r.greedy THEN more \o stop ELSE stop \o more
    [] r.t = "opt" -> Ends(r.r, s, p) \o EmptyMatch(p)
    [] r.t = "grp" ->
         LET xs == Ends(r.r, s, p)
         IN  [k \in 1..Len(xs) |->
                [xs[k] EXCEPT !.caps = [@ EXCEPT ![r.n] = <<p, xs[k].e>>]]]

\* the match that starts at b, given the matches there in order of preference
MatchAt(b, xs) == [b |-> b, e |-> xs[1].e, caps |-> xs[1].caps]

\* no match
NoMatch == [b |-> 0, e |-> 0, caps |-> NoCaps]

\* the leftmost of the match starts, with the match there
LeftmostOf(re, s, starts) ==
  IF starts = {} THEN NoMatch ELSE MatchAt(MinOf(starts), Ends(re, s, MinOf(starts)))

\* the leftmost match of re in s that starts at p or later
FindFrom(re, s, p) ==
  LeftmostOf(re, s, {q \in p..(Len(s) + 1) : Ends(re, s, q) # <<>>})

\* the text of group g of match m, the whole match for g = 0
Submatch(s, m, g) ==
  IF g = 0 THEN SubSeq(s, m.b, m.e - 1)
  ELSE IF m.caps[g] = <<>> THEN <<>>
  ELSE SubSeq(s, m.caps[g][1], m.caps[g][2] - 1)

\* one piece of a replacement template: literal text, then $grp (grp = 0: nothing)
Piece(lit, grp) == [lit |-> lit, grp |-> grp]

\* Regexp.Expand of a replacement template for match m
Expand(template, s, m) ==
  Flatten([k \in 1..Len(template) |->
     template[k].lit \o (IF template[k].grp = 0 THEN <<>>
                          ELSE Submatch(s, m, template[k].grp))])

\* where the search goes on after match m: past the match, and one
\* character further after an empty match; past the end when there is none
Resume(s, m) ==
  IF m.b = 0 THEN Len(s) + 1 ELSE IF m.e = m.b THEN m.b + 1 ELSE m.e

RECURSIVE MatchesFrom(_, _, _)
\* the successive matches of re in s from position p on, each searched from
\* where the one before it ended; the last entry is NoMatch unless a match
\* reaches the end of s
MatchesFrom(re, s, p) ==
  IF p > Len(s) THEN <<>>
  ELSE <<FindFrom(re, s, p)>> \o MatchesFrom(re, s, Resume(s, FindFrom(re, s, p)))

\* the text from position p up to and including the replacement of match m,
\* the match found from p on; the text from p to the end when there is none
Replaced(s, p, template, m) ==
  IF m.b = 0 THEN SubSeq(s, p, Len(s))
  ELSE SubSeq(s, p, m.b - 1) \o Expand(template, s, m)
         \o (IF m.e = m.b /\ m.b <= Len(s) THEN <<s[m.b]>> ELSE <<>>)

\* s with the matches ms replaced
ReplaceEach(s, template, ms) ==
  Flatten([k \in 1..Len(ms) |->
     Replaced(s, IF k = 1 THEN 1 ELSE Resume(s, ms[k - 1]), template, ms[k])])

\* re.ReplaceAllString(s, template); no pattern of the program matches the
\* empty string
ReplaceAllString(re, s, template) ==
  IF s = <<>> THEN <<>> ELSE ReplaceEach(s, template, MatchesFrom(re, s, 1))

\* re.ReplaceAllString(s, "")
DeleteAll(re, s) == ReplaceAllString(re, s, <<>>)

\* re.FindStringSubmatch(s): <<>> when there is no match, else the match
\* followed by the text of the groups (all patterns here have one or two)
FindStringSubmatch(re, s) ==
  LET m == FindFrom(re, s, 1)
  IN  IF m.b = 0 THEN <<>>
      ELSE <<Submatch(s, m, 0), Submatch(s, m, 1), Submatch(s, m, 2)>>

(***************************************************************************)
(* The patterns of the sanitizers.                                         *)
(***************************************************************************)

\* \s (of the characters of the model: space, tab, newline, carriage return)
Space == Class(WS, FALSE)

\* one of the characters cs, once or more
Some(cs) == Star(Class(cs, FALSE), 1, TRUE)

\* (?is)<tag[^>]*>.*?</tag>
ElementRe(tag) ==
  Cat(<<Lit(<<"<">> \o tag, TRUE), Star(Class({">"}, TRUE), 0, TRUE), Lit(<<">">>, TRUE),
        Star(Class({}, TRUE), 0, FALSE), Lit(<<"<","/">> \o tag \o <<">">>, TRUE)>>)

\* (?i)<tag[^>]*/?> and, when not selfClosing, (?i)<tag[^>]*>
OpenTagRe(tag, selfClosing) ==
  Cat(<<Lit(<<"<">> \o tag, TRUE), Star(Class({">"}, TRUE), 0, TRUE)>>
      \o (IF selfClosing THEN <<Opt(Lit(<<"/">>, TRUE))>> ELSE <<>>)
      \o <<Lit(<<">">>, TRUE)>>)

\* (?i)</tag>
CloseTagRe(tag) == Lit(<<"<","/">> \o tag \o <<">">>, TRUE)

\* <!--[\s\S]*?-->
CommentRe ==
  Cat(<<Lit(<<"<","!","-","-">>, FALSE), Star(Class({}, TRUE), 0, FALSE), Lit(<<"-","-",">">>, FALSE)>>)

\* \s+name="[^"]*" for the quote character q, name a pattern
AttrRe(name, q) ==
  Cat(<<Star(Space, 1, TRUE), name, Lit(<<"=", q>>, FALSE),
        Star(Class({q}, TRUE), 0, TRUE), Lit(<<q>>, FALSE)>>)

\* on\w+
EventName == Cat(<<Lit(<<"o","n">>, FALSE), Some(WordChars)>>)

\* [a-z-]
LowerDash == AsSet(Lower) \cup {"-"}

\* [a-zA-Z0-9-]
AlnumDash == (WordChars \ {"_"}) \cup {"-"}

\* data-[..]+ with the characters cs in the brackets
DataName(cs) == Cat(<<Lit(<<"d","a","t","a","-">>, FALSE), Some(cs)>>)

\* \s+data-[a-zA-Z0-9-]+'[^']*'
DataAttrSingleRe ==
  Cat(<<Star(Space, 1, TRUE), DataName(AlnumDash), Lit(<<"'">>, FALSE),
        Star(Class({"'"}, TRUE), 0, TRUE), Lit(<<"'">>, FALSE)>>)

\* <(\w+)\s+>
TrailingSpaceRe ==
  Cat(<<Lit(<<"<">>, FALSE), Group(1, Some(WordChars)), Star(Space, 1, TRUE),
        Lit(<<">">>, FALSE)>>)

\* <p>\s*</p> and, with attrs, <p[^>]*>\s*</p>
EmptyParagraphRe(attrs) ==
  Cat(<<Lit(<<"<","p">>, FALSE)>>
      \o (IF attrs THEN <<Star(Class({">"}, TRUE), 0, TRUE)>> ELSE <<>>)
      \o <<Lit(<<">">>, FALSE), Star(Space, 0, TRUE), Lit(<<"<","/","p",">">>, FALSE)>>)

\* (<br\s*/?>){3,} (the group's text is not used)
BrRunRe ==
  Star(Cat(<<Lit(<<"<","b","r">>, FALSE), Star(Space, 0, TRUE), Opt(Lit(<<"/">>, FALSE)),
             Lit(<<">">>, FALSE)>>), 3, TRUE)

\* \n{3,}
NewlinesRe == Star(Class({"\n"}, FALSE), 3, TRUE)

\* [ \t]+
BlanksRe == Some({" ", "\t"})

\* (?i)<(tag)([^/>]*)> and, when spaced, (?i)<(tag)([^/>]*)\s+/>
SelfClosingRe(tag, spaced) ==
  Cat(<<Lit(<<"<">>, TRUE), Group(1, Lit(tag, TRUE)),
        Group(2, Star(Class({"/", ">"}, TRUE), 0, TRUE))>>
      \o (IF spaced THEN <<Star(Space, 1, TRUE), Lit(<<"/",">">>, TRUE)>>
          ELSE <<Lit(<<">">>, TRUE)>>))

\* the replacement "<$1>"
TagOfGroup1 == <<Piece(<<"<">>, 1), Piece(<<">">>, 0)>>

\* the replacement "<$1$2/>"
SelfClosed == <<Piece(<<"<">>, 1), Piece(<<>>, 2), Piece(<<"/",">">>, 0)>>

\* a replacement without groups
Literally(text) == <<Piece(text, 0)>>

(***************************************************************************)
(* extractor.CleanContent and extractor.stripHTMLTags                      *)
(***************************************************************************)

\* re.ReplaceAllString(s, "") for <[^>]*>
stripHTMLTags(s) ==
  DeleteAll(Cat(<<Lit(<<"<">>, FALSE), Star(Class({">"}, TRUE), 0, TRUE), Lit(<<">">>, FALSE)>>), s)

\* the attribute removals of CleanContent and sanitizeHTML, innermost
\* first: on*=, style=, class=, id=, data-*=, each in double quotes
CleanAttributes(html) ==
  DeleteAll(AttrRe(DataName(LowerDash), "\""),
    DeleteAll(AttrRe(Lit(<<"i","d">>, FALSE), "\""),
      DeleteAll(AttrRe(Lit(<<"c","l","a","s","s">>, FALSE), "\""),
        DeleteAll(AttrRe(Lit(<<"s","t","y","l","e">>, FALSE), "\""),
          DeleteAll(AttrRe(EventName, "\""), html)))))

\* the element removals CleanContent and sanitizeHTML start with, innermost
\* first: script, style, noscript
CleanElements(html) ==
  DeleteAll(ElementRe(W.noscript),
    DeleteAll(ElementRe(W.style),
      DeleteAll(ElementRe(W.script), html)))

\* the steps of CleanContent from "<$1>" to the empty paragraphs and the br runs
CleanTags(html) ==
  ReplaceAllString(BrRunRe,
    DeleteAll(EmptyParagraphRe(FALSE),
      ReplaceAllString(TrailingSpaceRe, html, TagOfGroup1)),
    Literally(<<"<","b","r","/",">","<","b","r","/",">">>))

\* the line-end steps of CleanContent, innermost first: "\r\n" to "\n",
\* "\r" to "\n", \n{3,} to "\n\n"
CleanLines(html) ==
  ReplaceAllString(NewlinesRe,
    ReplaceAllString(Lit(<<"\r">>, FALSE),
      ReplaceAllString(Lit(<<"\r","\n">>, FALSE), html, Literally(<<"\n">>)),
      Literally(<<"\n">>)),
    Literally(<<"\n","\n">>))

CleanContent(html) ==
  TrimSpace(CleanLines(CleanTags(CleanAttributes(CleanElements(html)))))

(***************************************************************************)
(* output.sanitizeHTML                                                     *)
(***************************************************************************)
sanitizeHTML(htmlContent) ==
  TrimSpace(CleanAttributes(DeleteAll(CommentRe, CleanElements(htmlContent))))

(***************************************************************************)
(* formatter.HTMLNormalizer                                                *)
(***************************************************************************)

\* NewHTMLNormalizer(): the default settings
NewHTMLNormalizer == [PreserveImages |-> TRUE, PreserveLinks |-> TRUE]

removeTag(html, tag) ==
  DeleteAll(OpenTagRe(tag, TRUE), DeleteAll(ElementRe(tag), html))

stripTagKeepContent(html, tag) ==
  DeleteAll(CloseTagRe(tag), DeleteAll(OpenTagRe(tag, FALSE), html))

removeHTMLComments(html) == DeleteAll(CommentRe, html)

\* the removal of name="..." and then of name='...'
removeQuoted(html, name) ==
  DeleteAll(AttrRe(name, "'"), DeleteAll(AttrRe(name, "\""), html))

removeEventHandlers(html) == removeQuoted(html, EventName)

removeAttribute(html, attr) == removeQuoted(html, Lit(attr, FALSE))

removeDataAttributes(html) ==
  DeleteAll(DataAttrSingleRe, DeleteAll(AttrRe(DataName(AlnumDash), "\""), html))

selfClosingTags ==
  <<<<"b","r">>, <<"h","r">>, <<"i","m","g">>, <<"i","n","p","u","t">>, <<"m","e","t","a">>, <<"l","i","n","k">>, <<"a","r","e","a">>, <<"b","a","s","e">>,
    <<"c","o","l">>, <<"e","m","b","e","d">>, <<"p","a","r","a","m">>, <<"s","o","u","r","c","e">>, <<"t","r","a","c","k">>, <<"w","b","r">>>>

\* the body of the loop of fixSelfClosingTags for one tag
fixSelfClosingTag(html, tag) ==
  ReplaceAllString(SelfClosingRe(tag, TRUE),
                   ReplaceAllString(SelfClosingRe(tag, FALSE), html, SelfClosed),
                   SelfClosed)

RECURSIVE fixSelfClosingFrom(_, _)
\* the loop of fixSelfClosingTags from the k-th tag on (in the empty string
\* no tag is left to fix)
fixSelfClosingFrom(html, k) ==
  IF html = <<>> \/ k > Len(selfClosingTags) THEN html
  ELSE fixSelfClosingFrom(fixSelfClosingTag(html, selfClosingTags[k]), k + 1)

fixSelfClosingTags(html) == fixSelfClosingFrom(html, 1)

removeEmptyParagraphs(html) == DeleteAll(EmptyParagraphRe(TRUE), html)

collapseWhitespace(html) ==
  ReplaceAllString(NewlinesRe,
                   ReplaceAllString(BlanksRe, html, Literally(<<" ">>)),
                   Literally(<<"\n","\n">>))

\* the removals of Normalize up to the data attributes, innermost first
NormalizeRemovals(html) ==
  removeDataAttributes(
    removeAttribute(
      removeAttribute(
        removeAttribute(
          removeEventHandlers(
            removeHTMLComments(
              removeTag(removeTag(removeTag(html, W.script), W.style), W.noscript))),
          <<"s","t","y","l","e">>),
        <<"c","l","a","s","s">>),
      <<"i","d">>))

\* if !n.PreserveImages { html = removeTag(html, "img") }
NormalizeImages(n, html) ==
  IF ~n.PreserveImages THEN removeTag(html, <<"i","m","g">>) ELSE html

\* if !n.PreserveLinks { html = stripTagKeepContent(html, "a") }
NormalizeLinks(n, html) ==
  IF ~n.PreserveLinks THEN stripTagKeepContent(html, W.a) ELSE html

Normalize(n, html) ==
  TrimSpace(
    NormalizeLinks(n,
      NormalizeImages(n,
        collapseWhitespace(
          removeEmptyParagraphs(
            fixSelfClosingTags(NormalizeRemovals(html)))))))

(***************************************************************************)
(* extractor.ExtractTitle                                                  *)
(***************************************************************************)

\* regexPattern == ""
NoPattern == [t |-> "none"]

RECURSIVE CaseInsensitive(_)
\* "(?i)" + regexPattern
CaseInsensitive(re) ==
  CASE re.t = "lit" -> Lit(ToLower(re.s), TRUE)
    [] re.t = "set" -> re
    [] re.t = "cat" -> Cat([k \in 1..Len(re.rs) |-> CaseInsensitive(re.rs[k])])
    [] OTHER        -> [re EXCEPT !.r = CaseInsensitive(@)]

RECURSIVE NumSubexp(_)
\* Regexp.NumSubexp: the number of capturing groups
NumSubexp(re) ==
  CASE re.t \in {"lit", "set"} -> 0
    [] re.t = "cat" -> IF re.rs = <<>> THEN 0
                       ELSE NumSubexp(Head(re.rs)) + NumSubexp(Cat(Tail(re.rs)))
    [] re.t = "grp" -> 1 + NumSubexp(re.r)
    [] OTHER        -> NumSubexp(re.r)

\* strings.TrimSpace(doc.Find(sel).First().Text()), and "" when nothing matches
FirstText(doc, sel) ==
  LET title == FindIn(NewHeap(doc), Root, sel)
  IN  IF Len(title.nodes) > 0 THEN TrimSpace(TextOf(doc, title.nodes[1])) ELSE <<>>

\* the text the regexPattern branch yields: the first group, trimmed and
\* then stripped of tags, and "" when the branch yields nothing
RegexText(doc, regexPattern) ==
  LET matches == FindStringSubmatch(CaseInsensitive(regexPattern), Html(doc, 0))
  IN  IF Len(matches) > 1 /\ NumSubexp(regexPattern) > 0
      THEN stripHTMLTags(TrimSpace(matches[2])) ELSE <<>>

fallbackSelectors ==
  <<<<Sel(W.h1, W.title, <<>>)>>,
    <<Sel(W.h1, W.chapter_title, <<>>)>>,
    <<Sel(W.h1, W.entry_title, <<>>)>>,
    <<Sel(W.h1, W.post_title, <<>>)>>,
    <<Sel(W.h1, <<>>, <<>>)>>,
    <<Sel(W.h2, W.title, <<>>)>>,
    <<Sel(W.h2, W.chapter_title, <<>>)>>,
    <<Sel(<<>>, W.chapter_title, <<>>)>>,
    <<Sel(<<>>, W.story_title, <<>>)>>,
    <<Sel(W.title, <<>>, <<>>)>>>>

TitleMaxLen == 200

\* the texts of the loop over fallbackSelectors that pass the test of the
\* loop body, in the order of the list
FallbackTexts(doc) ==
  SelectSeq([k \in 1..Len(fallbackSelectors) |-> FirstText(doc, fallbackSelectors[k])],
            LAMBDA text : text # <<>> /\ Len(text) < TitleMaxLen)

\* the rest of ExtractTitle after the selector branch
TitleAfterSelector(doc, regexPattern, byRegex) ==
  IF regexPattern # NoPattern /\ byRegex # <<>> THEN byRegex
  ELSE IF FallbackTexts(doc) # <<>> THEN Head(FallbackTexts(doc)) ELSE <<>>

\* the rest of ExtractTitle once the selector branch has its text
TitleAfter(doc, selector, regexPattern, bySelector) ==
  IF selector # <<>> /\ bySelector # <<>> THEN bySelector
  ELSE TitleAfterSelector(doc, regexPattern,
         IF regexPattern # NoPattern THEN RegexText(doc, regexPattern) ELSE <<>>)

\* the same with the regexPattern branch consulted before the selector branch
ExtractTitleRegexFirst(doc, selector, regexPattern) ==
  TitleAfterSelector(doc, regexPattern,
    IF regexPattern # NoPattern /\ RegexText(doc, regexPattern) # <<>>
    THEN RegexText(doc, regexPattern)
    ELSE IF selector # <<>> THEN FirstText(doc, selector) ELSE <<>>)

ExtractTitle(doc, selector, regexPattern) ==
  TitleAfter(doc, selector, regexPattern,
             IF selector # <<>> THEN FirstText(doc, selector) ELSE <<>>)

(***************************************************************************)
(* XPathRegexStrategy                                                      *)
(***************************************************************************)
\* a pattern regexp.Compile rejects, such as an unclosed group
BadPattern == [t |-> "bad"]

\* . in a pattern: any character but \n, and any character under (?s)
Dot == [t |-> "set", cs |-> {"\n"}, neg |-> TRUE, dot |-> TRUE]

RECURSIVE DotAll(_)
\* "(?s)" + pattern
DotAll(re) ==
  CASE re.t = "lit" -> re
    [] re.t = "set" -> IF "dot" \in DOMAIN re THEN Class({}, TRUE) ELSE re
    [] re.t = "cat" -> Cat([k \in 1..Len(re.rs) |-> DotAll(re.rs[k])])
    [] OTHER        -> [re EXCEPT !.r = DotAll(@)]

\* re, err := regexp.Compile("(?is)" + pattern): err != nil
CompileFails(pattern) == pattern.t = "bad"

\* matches[1] as it is, without strings.TrimSpace
PatternContentUntrimmed(pattern, fullHTML) ==
  LET matches == FindStringSubmatch(DotAll(CaseInsensitive(pattern)), fullHTML)
  IN  IF Len(matches) > 1 /\ NumSubexp(pattern) > 0
      THEN matches[2] ELSE <<>>

\* strings.TrimSpace(matches[1]) when len(matches) > 1, and "" otherwise
PatternContent(pattern, fullHTML) ==
  LET matches == FindStringSubmatch(DotAll(CaseInsensitive(pattern)), fullHTML)
  IN  IF Len(matches) > 1 /\ NumSubexp(pattern) > 0
      THEN TrimSpace(matches[2]) ELSE <<>>

RECURSIVE XPathRegexEach(_, _, _, _)

\* the rest of one turn of the loop, content being what pattern k yields
XPathRegexTurn(patterns, k, fullHTML, doc, content) ==
  IF Len(content) > 0 THEN Return(content, "", 0, doc)
  ELSE XPathRegexEach(patterns, k + 1, fullHTML, doc)

\* the loop over s.Patterns from pattern k on
XPathRegexEach(patterns, k, fullHTML, doc) ==
  IF k > Len(patterns) THEN Return(<<>>, "no regex patterns matched", 0, doc)
  ELSE IF CompileFails(patterns[k]) THEN XPathRegexEach(patterns, k + 1, fullHTML, doc)
  ELSE XPathRegexTurn(patterns, k, fullHTML, doc, PatternContent(patterns[k], fullHTML))

XPathRegexStrategy_Extract(s, doc, opts) ==
  IF Len(s.Patterns) = 0 THEN Return(<<>>, "no regex patterns configured", 0, doc)
  ELSE XPathRegexEach(s.Patterns, 1, Html(doc, 0), doc)

(***************************************************************************)
(* HybridStrategy and the DetectionStrategy interface                      *)
(***************************************************************************)
\* DetectionStrategy.Name
Name(s) == s.kind

\* strategy.Extract(doc, opts) on a sub-strategy of a hybrid: one of the
\* strategies a HybridStrategy composes
ExtractSub(s, doc, opts) ==
  CASE s.kind = "css_selector" -> CSSSelectorStrategy_Extract(s, doc, opts)
    [] s.kind = "text_density" -> TextDensityStrategy_Extract(s, doc, opts)
    [] s.kind = "xpath_regex"  -> XPathRegexStrategy_Extract(s, doc, opts)
    [] s.kind = "dom_position" -> DOMPositionStrategy_Extract(s, doc, opts)

RECURSIVE HybridEach(_, _, _, _, _, _)

\* one turn of the loop, returning on any success: the test len(content) > 0
\* is left out
HybridTurnAnySuccess(subs, k, doc, opts, errors, calls, r) ==
  IF r.err # ""
  THEN HybridEach(subs, k + 1, r.doc, opts,
                  (IF errors = "" THEN "" ELSE errors \o "; ")
                     \o Name(subs[k]) \o ": " \o r.err,
                  Append(calls, [index |-> k, name |-> Name(subs[k]), err |-> r.err,
                                 content |-> r.content, before |-> doc]))
  ELSE [content |-> r.content, err |-> "", node |-> r.node, doc |-> r.doc,
        calls |-> Append(calls, [index |-> k, name |-> Name(subs[k]), err |-> r.err,
                                 content |-> r.content, before |-> doc])]

\* one turn of the loop of HybridStrategy.Extract: r is what sub-strategy k
\* returned on doc
HybridTurn(subs, k, doc, opts, errors, calls, r) ==
  IF r.err # ""
  THEN HybridEach(subs, k + 1, r.doc, opts,
                  (IF errors = "" THEN "" ELSE errors \o "; ")
                     \o Name(subs[k]) \o ": " \o r.err,
                  Append(calls, [index |-> k, name |-> Name(subs[k]), err |-> r.err,
                                 content |-> r.content, before |-> doc]))
  ELSE IF Len(r.content) > 0
  THEN [content |-> r.content, err |-> "", node |-> r.node, doc |-> r.doc,
        calls |-> Append(calls, [index |-> k, name |-> Name(subs[k]), err |-> r.err,
                                 content |-> r.content, before |-> doc])]
  ELSE HybridEach(subs, k + 1, r.doc, opts, errors,
                  Append(calls, [index |-> k, name |-> Name(subs[k]), err |-> r.err,
                                 content |-> r.content, before |-> doc]))

\* the loop of HybridStrategy.Extract from sub-strategy k on; errors is the
\* list joined so far, calls the log of the sub-strategy calls made
HybridEach(subs, k, doc, opts, errors, calls) ==
  IF k > Len(subs)
  THEN [content |-> <<>>, err |-> "all hybrid strategies failed: " \o errors,
        node |-> 0, doc |-> doc, calls |-> calls]
  ELSE HybridTurn(subs, k, doc, opts, errors, calls, ExtractSub(subs[k], doc, opts))

HybridStrategy_Extract(s, doc, opts) ==
  IF Len(s.Strategies) = 0
  THEN Return(<<>>, "no strategies configured for hybrid extraction", 0, doc)
  ELSE HybridEach(s.Strategies, 1, doc, opts, "", <<>>)

\* strategy.Extract(doc, opts) through the DetectionStrategy interface
Extract(s, doc, opts) ==
  IF s.kind = "hybrid" THEN HybridStrategy_Extract(s, doc, opts)
  ELSE ExtractSub(s, doc, opts)

(***************************************************************************)
(* scraper.Requester: robots.txt                                           *)
(***************************************************************************)
\* strings.HasPrefix
HasPrefix(s, prefix) ==
  Len(prefix) <= Len(s) /\ SubSeq(s, 1, Len(prefix)) = prefix

\* strings.Split(s, sep) for a separator of one character
Split(s, sep) ==
  LET cuts == SortedSeq({k \in 1..Len(s) : s[k] = sep} \cup {0, Len(s) + 1})
  IN  [k \in 1..(Len(cuts) - 1) |-> SubSeq(s, cuts[k] + 1, cuts[k + 1] - 1)]

\* strings.SplitN(line, ":", 2): the line itself when it holds no colon
SplitN2(line) ==
  LET colons == {k \in 1..Len(line) : line[k] = ":"}
  IN  IF colons = {} THEN <<line>>
      ELSE <<SubSeq(line, 1, MinOf(colons) - 1),
             SubSeq(line, MinOf(colons) + 1, Len(line))>>

DigitValue ==
  [c \in {"0","1","2","3","4","5","6","7","8","9"} |->
     CASE c = "0" -> 0 [] c = "1" -> 1 [] c = "2" -> 2 [] c = "3" -> 3 [] c = "4" -> 4
       [] c = "5" -> 5 [] c = "6" -> 6 [] c = "7" -> 7 [] c = "8" -> 8 [] c = "9" -> 9]

RECURSIVE Digits(_, _)
\* the value of the digits value starts with, after the digits read so far
Digits(value, sofar) ==
  IF value = <<>> \/ Head(value) \notin DOMAIN DigitValue THEN sofar
  ELSE Digits(Tail(value), 10 * sofar + DigitValue[Head(value)])

MsPerSecond == 1000

\* fmt.Sscanf(value, "%f", &delay) and time.Duration(delay * float64(time.Second)),
\* in milliseconds, for values written without fraction or sign
CrawlDelayOf(value) == Digits(value, 0) * MsPerSecond

\* &RobotsRules{Disallowed: make([]string, 0)}
NoRules == [Disallowed |-> <<>>, CrawlDelay |-> 0, Fetched |-> 0]

\* one line of robots.txt: the line is trimmed, and where the switch of
\* parseRobotsTxt acts on it, split into directive and value
RobotsLine(line) ==
  LET trimmed == TrimSpace(line)
      parts   == SplitN2(trimmed)
  IN  IF trimmed = <<>> \/ HasPrefix(trimmed, <<"#">>) \/ Len(parts) # 2
      THEN [directive |-> <<>>, value |-> <<>>]
      ELSE [directive |-> ToLower(TrimSpace(parts[1])), value |-> TrimSpace(parts[2])]

\* value == "*" || strings.Contains(strings.ToLower(value), "webtoepub")
RelevantAgent(value) == value = <<"*">> \/ Contains(ToLower(value), <<"w","e","b","t","o","e","p","u","b">>)

\* the body of the loop of parseRobotsTxt for one line, on the state
\* [rules, inUserAgentBlock, isRelevantAgent] of the loop
RobotsStep(st, ln) ==
  CASE ln.directive = <<"u","s","e","r","-","a","g","e","n","t">> ->
         [st EXCEPT !.inUserAgentBlock = TRUE,
                    !.isRelevantAgent = RelevantAgent(ln.value)]
    [] ln.directive = <<"d","i","s","a","l","l","o","w">> ->
         IF st.inUserAgentBlock /\ st.isRelevantAgent /\ ln.value # <<>>
         THEN [st EXCEPT !.rules.Disallowed = Append(@, ln.value)]
         ELSE st
    [] ln.directive = <<"c","r","a","w","l","-","d","e","l","a","y">> ->
         IF st.inUserAgentBlock /\ st.isRelevantAgent
         THEN [st EXCEPT !.rules.CrawlDelay = CrawlDelayOf(ln.value)]
         ELSE st
    [] OTHER -> st

RECURSIVE RobotsLoop(_, _, _)
\* the loop of parseRobotsTxt from line k on
RobotsLoop(lines, k, st) ==
  IF k > Len(lines) THEN st
  ELSE RobotsLoop(lines, k + 1, RobotsStep(st, RobotsLine(lines[k])))

\* parseRobotsTxt(content)
parseRobotsTxt(content) ==
  RobotsLoop(Split(content, "\n"), 1,
             [rules |-> NoRules, inUserAgentBlock |-> FALSE,
              isRelevantAgent |-> FALSE]).rules

\* a parsed target URL: url.Parse(targetURL)
URL(scheme, host, path) == [Scheme |-> scheme, Host |-> host, Path |-> path]

\* domain := parsedURL.Scheme + "://" + parsedURL.Host
DomainOf(u) == u.Scheme \o <<":","/","/">> \o u.Host

\* path := parsedURL.Path; if path == "" { path = "/" }
PathOf(u) == IF u.Path = <<>> THEN <<"/">> ELSE u.Path

\* the loop over rules.Disallowed of isAllowedByRobots
AllowedBy(rules, u) ==
  \A k \in 1..Len(rules.Disallowed) : ~HasPrefix(PathOf(u), rules.Disallowed[k])

(***************************************************************************)
(* The navigator's URL utilities and chapter discovery.                    *)
(***************************************************************************)
DecimalDigits == <<"0", "1", "2", "3", "4", "5", "6", "7", "8", "9">>

RECURSIVE Itoa(_)
\* strconv.Itoa of a number that is not negative
Itoa(i) ==
  IF i < 10 THEN <<DecimalDigits[i + 1]>>
  ELSE Itoa(i \div 10) \o <<DecimalDigits[(i % 10) + 1]>>

RECURSIVE ReplaceAll(_, _, _)
\* strings.ReplaceAll(s, old, new), old not empty
ReplaceAll(s, old, new) ==
  IF Len(s) < Len(old) THEN s
  ELSE IF HasPrefix(s, old) THEN new \o ReplaceAll(SubSeq(s, Len(old) + 1, Len(s)), old, new)
  ELSE <<s[1]>> \o ReplaceAll(Tail(s), old, new)

\* the URL GenerateURLsFromPattern makes for number i
URLFromPattern(pattern, i) ==
  ReplaceAll(ReplaceAll(ReplaceAll(pattern, <<"{","n","u","m","b","e","r","}">>, Itoa(i)), <<"{","n","u","m","}">>, Itoa(i)),
             <<"{","n","}">>, Itoa(i))

\* GenerateURLsFromPattern(pattern, start, end)
GenerateURLsFromPattern(pattern, start, end) ==
  IF end < start THEN <<>>
  ELSE [k \in 1..(end - start + 1) |-> URLFromPattern(pattern, start + k - 1)]

\* ChapterInfo{URL, Index, Title, Status: "pending"}
ChapterInfo(url, index, chapterTitle) ==
  [URL |-> url, Index |-> index, Title |-> chapterTitle, Status |-> "pending"]

\* fmt.Sprintf("Chapter %d", n)
ChapterN(n) == <<"C","h","a","p","t","e","r"," ">> \o Itoa(n)

\* start of discoverByPattern
NumberStartOf(config) == IF config.NumberStart < 1 THEN 1 ELSE config.NumberStart

\* ChapterNavigator.discoverByPattern: the chapters, or the error
discoverByPattern(config) ==
  IF config.URLPattern = <<>>
  THEN [chapters |-> <<>>, err |-> "URL pattern not configured"]
  ELSE IF config.NumberEnd < NumberStartOf(config)
  THEN [chapters |-> <<>>, err |-> "numberEnd must be >= numberStart"]
  ELSE [chapters |->
          [k \in 1..(config.NumberEnd - NumberStartOf(config) + 1) |->
             ChapterInfo(GenerateURLsFromPattern(config.URLPattern, NumberStartOf(config),
                                                 config.NumberEnd)[k],
                         k, ChapterN(NumberStartOf(config) + k - 1))],
        err |-> ""]

HasSuffix(s, suffix) ==
  Len(suffix) <= Len(s) /\ SubSeq(s, Len(s) - Len(suffix) + 1, Len(s)) = suffix

\* strings.HasPrefix(url, "http://") || strings.HasPrefix(url, "https://")
HasScheme(url) == HasPrefix(url, <<"h","t","t","p",":","/","/">>) \/ HasPrefix(url, <<"h","t","t","p","s",":","/","/">>)

\* strings.TrimSuffix(url, "/")
TrimSlash(url) == IF HasSuffix(url, <<"/">>) THEN SubSeq(url, 1, Len(url) - 1) ELSE url

\* NormalizeURL(url)
NormalizeURL(url) ==
  TrimSlash(IF HasScheme(TrimSpace(url)) THEN TrimSpace(url) ELSE <<"h","t","t","p","s",":","/","/">> \o TrimSpace(url))

\* strings.LastIndex(s, "/"), counted from 0; -1 when there is none
LastSlash(s) ==
  IF \E i \in 1..Len(s) : s[i] = "/"
  THEN MaxOf({i \in 1..Len(s) : s[i] = "/"}) - 1
  ELSE 0 - 1

\* the submatch of ^(https?://[^/]+) in baseURL, <<>> when it does not match
Origin(baseURL) ==
  LET from == IF HasPrefix(baseURL, <<"h","t","t","p",":","/","/">>) THEN Len(<<"h","t","t","p",":","/","/">>) + 1
              ELSE IF HasPrefix(baseURL, <<"h","t","t","p","s",":","/","/">>) THEN Len(<<"h","t","t","p","s",":","/","/">>) + 1 ELSE 0
      stops == {i \in from..Len(baseURL) : baseURL[i] = "/"}
      to    == IF stops = {} THEN Len(baseURL) ELSE MinOf(stops) - 1
  IN  IF from = 0 \/ to < from THEN <<>> ELSE SubSeq(baseURL, 1, to)

\* the length of "https://", which a last slash has to lie beyond
SchemeLen == 8

\* ResolveRelativeURL once relativeURL is known to be relative to the page
ResolveAgainst(baseURL, relativeURL) ==
  IF HasPrefix(relativeURL, <<"/">>) /\ Origin(baseURL) # <<>>
  THEN Origin(baseURL) \o relativeURL
  ELSE IF LastSlash(baseURL) > SchemeLen
  THEN SubSeq(baseURL, 1, LastSlash(baseURL) + 1) \o relativeURL
  ELSE baseURL \o <<"/">> \o relativeURL

\* ResolveRelativeURL(baseURL, relativeURL)
ResolveRelativeURL(baseURL, relativeURL) ==
  IF HasScheme(relativeURL) THEN relativeURL
  ELSE IF HasPrefix(relativeURL, <<"/","/">>)
  THEN (IF HasPrefix(baseURL, <<"h","t","t","p","s",":","/","/">>) THEN <<"h","t","t","p","s",":">> ELSE <<"h","t","t","p",":">>) \o relativeURL
  ELSE ResolveAgainst(NormalizeURL(baseURL), relativeURL)

\* the body of the Each of ParseTOCPage for one link of the selection,
\* [href, text] with href <<>> for no or an empty href; st is
\* [chapters, index, visited]
TOCLink(config, baseURL, st, link) ==
  LET url == ResolveRelativeURL(baseURL, link.href)
  IN  IF link.href = <<>> \/ url \in st.visited THEN st
      ELSE IF config.MaxChapters > 0 /\ st.index > config.MaxChapters
      THEN [st EXCEPT !.visited = @ \cup {url}]
      ELSE [chapters |->
              Append(st.chapters,
                     ChapterInfo(url, st.index,
                                 IF TrimSpace(link.text) = <<>> THEN ChapterN(st.index)
                                 ELSE TrimSpace(link.text))),
            index |-> st.index + 1,
            visited |-> st.visited \cup {url}]

RECURSIVE TOCLinks(_, _, _, _, _)
\* the Each of ParseTOCPage from link k of the selection on
TOCLinks(config, baseURL, links, k, st) ==
  IF k > Len(links) THEN st
  ELSE TOCLinks(config, baseURL, links, k + 1, TOCLink(config, baseURL, st, links[k]))

\* ChapterNavigator.ParseTOCPage(doc, baseURL), links being
\* doc.Find(cn.config.TOCLinkSelector): the chapters, the visited set, or
\* the error
ParseTOCPage(config, visited, links, baseURL) ==
  IF config.TOCLinkSelector = <<>>
  THEN [chapters |-> <<>>, visited |-> visited, err |-> "TOC link selector not configured"]
  ELSE LET st == TOCLinks(config, baseURL, links, 1,
                          [chapters |-> <<>>, index |-> 1, visited |-> visited])
       IN  [chapters |-> st.chapters, visited |-> st.visited, err |-> ""]

\* ChapterNavigator.UpdateChapterStatus(index, status)
UpdateChapterStatus(chapters, index, status) ==
  IF index > 0 /\ index <= Len(chapters)
  THEN [chapters EXCEPT ![index].Status = status] ELSE chapters

\* ChapterNavigator.UpdateChapterTitle(index, title)
UpdateChapterTitle(chapters, index, chapterTitle) ==
  IF index > 0 /\ index <= Len(chapters) /\ chapterTitle # <<>>
  THEN [chapters EXCEPT ![index].Title = chapterTitle] ELSE chapters

\* ChapterNavigator.GetProgress()
GetProgress(chapters) ==
  [total   |-> Len(chapters),
   scraped |-> Cardinality({k \in 1..Len(chapters) : chapters[k].Status = "scraped"}),
   errors  |-> Cardinality({k \in 1..Len(chapters) : chapters[k].Status = "error"})]

(***************************************************************************)
(* ChapterNavigator.FindNextChapterLink                                    *)
(***************************************************************************)
\* the first element the next-link selector finds: none, one without href,
\* one with href (an empty href counts as none)
NoLink == [found |-> FALSE, href |-> <<>>]

LinkTo(href) == [found |-> TRUE, href |-> href]

NoNextChapter == [url |-> <<>>, found |-> FALSE]

\* FindNextChapterLink without the test cn.visited[nextURL]
FindNextChapterLinkUnchecked(config, visited, link, currentURL) ==
  IF config.NextLinkSelector = <<>> THEN NoNextChapter
  ELSE IF ~link.found THEN NoNextChapter
  ELSE IF link.href = <<>> THEN NoNextChapter
  ELSE IF ResolveRelativeURL(currentURL, link.href) = currentURL THEN NoNextChapter
  ELSE [url |-> ResolveRelativeURL(currentURL, link.href), found |-> TRUE]

\* ChapterNavigator.FindNextChapterLink(doc, currentURL), link being
\* doc.Find(cn.config.NextLinkSelector).First()
FindNextChapterLink(config, visited, link, currentURL) ==
  IF config.NextLinkSelector = <<>> THEN NoNextChapter
  ELSE IF ~link.found THEN NoNextChapter
  ELSE IF link.href = <<>> THEN NoNextChapter
  ELSE IF ResolveRelativeURL(currentURL, link.href) = currentURL THEN NoNextChapter
  ELSE IF ResolveRelativeURL(currentURL, link.href) \in visited THEN NoNextChapter
  ELSE [url |-> ResolveRelativeURL(currentURL, link.href), found |-> TRUE]

(***************************************************************************)
(* The normalization of void elements: extractor.NormalizeForEPUB and      *)
(* output.normalizeForEPUB (formatter.fixSelfClosingTags is above)         *)
(***************************************************************************)
\* selfClosingTags of NormalizeForEPUB, selfClosing of normalizeForEPUB
epubSelfClosingTags ==
  <<<<"b","r">>, <<"h","r">>, <<"i","m","g">>, <<"i","n","p","u","t">>, <<"m","e","t","a">>, <<"l","i","n","k">>>>

\* <tag([^/>]*)> and, with fold, (?i)<tag([^/>]*)>
VoidOpenRe(tag, fold) ==
  Cat(<<Lit(<<"<">> \o tag, fold), Group(1, Star(Class({"/", ">"}, TRUE), 0, TRUE)),
        Lit(<<">">>, fold)>>)

\* <tag([^/>]*)\s*/>
VoidClosedRe(tag) ==
  Cat(<<Lit(<<"<">> \o tag, FALSE), Group(1, Star(Class({"/", ">"}, TRUE), 0, TRUE)),
        Star(Space, 0, TRUE), Lit(<<"/",">">>, FALSE)>>)

\* the replacement "<tag$1/>"
VoidClosed(tag) == <<Piece(<<"<">> \o tag, 1), Piece(<<"/",">">>, 0)>>

RECURSIVE NormalizeForEPUBFrom(_, _)
\* the loop of NormalizeForEPUB from the k-th tag on
NormalizeForEPUBFrom(html, k) ==
  IF k > Len(epubSelfClosingTags) THEN html
  ELSE NormalizeForEPUBFrom(
         ReplaceAllString(VoidClosedRe(epubSelfClosingTags[k]),
           ReplaceAllString(VoidOpenRe(epubSelfClosingTags[k], FALSE), html,
                            VoidClosed(epubSelfClosingTags[k])),
           VoidClosed(epubSelfClosingTags[k])),
         k + 1)

\* extractor.NormalizeForEPUB
NormalizeForEPUB(html) == NormalizeForEPUBFrom(html, 1)

RECURSIVE selfCloseFrom(_, _)
\* the first loop of normalizeForEPUB from the k-th tag on
selfCloseFrom(htmlContent, k) ==
  IF k > Len(epubSelfClosingTags) THEN htmlContent
  ELSE selfCloseFrom(
         ReplaceAllString(VoidOpenRe(epubSelfClosingTags[k], TRUE), htmlContent,
                          VoidClosed(epubSelfClosingTags[k])),
         k + 1)

\* the alternatives of (p|div|h[1-6]|ul|ol|table|blockquote) behind "<"
BlockOpenings ==
  {<<"<","p">>, <<"<","d","i","v">>, <<"<","h","1">>, <<"<","h","2">>, <<"<","h","3">>, <<"<","h","4">>, <<"<","h","5">>, <<"<","h","6">>,
   <<"<","u","l">>, <<"<","o","l">>, <<"<","t","a","b","l","e">>, <<"<","b","l","o","c","k","q","u","o","t","e">>}

\* ^<(p|div|h[1-6]|ul|ol|table|blockquote) matches p
StartsBlock(p) == \E o \in BlockOpenings : HasPrefix(p, o)

\* s without its leading white space
TrimLeft(s) ==
  IF \A i \in 1..Len(s) : s[i] \in WS THEN <<>>
  ELSE SubSeq(s, MinOf({i \in 1..Len(s) : s[i] \notin WS}), Len(s))

\* \n\s*\n
BlankLineRe == Cat(<<Lit(<<"\n">>, FALSE), Star(Space, 0, TRUE), Lit(<<"\n">>, FALSE)>>)

\* the matches of re in s
MatchesOf(re, s) ==
  IF s = <<>> THEN <<>> ELSE SelectSeq(MatchesFrom(re, s, 1), LAMBDA m : m.b # 0)

\* re.Split(s, -1) for a pattern that matches no empty string: the pieces
\* of s between the matches ms
SplitAt(s, ms) ==
  [k \in 1..(Len(ms) + 1) |->
     SubSeq(s, IF k = 1 THEN 1 ELSE ms[k - 1].e,
               IF k > Len(ms) THEN Len(s) ELSE ms[k].b - 1)]

\* the body of the loop over the paragraphs, without the test p == ""
Wrapped(p) == IF StartsBlock(p) THEN p ELSE <<"<","p",">">> \o p \o <<"<","/","p",">">>

\* the loop over the paragraphs and strings.Join(wrapped, "\n")
WrapEach(paragraphs) ==
  LET wrapped == SelectSeq([k \in 1..Len(paragraphs) |->
                              IF TrimSpace(paragraphs[k]) = <<>> THEN <<>>
                              ELSE Wrapped(TrimSpace(paragraphs[k]))],
                           LAMBDA p : p # <<>>)
  IN  Flatten([k \in 1..Len(wrapped) |->
                 (IF k = 1 THEN <<>> ELSE <<"\n">>) \o wrapped[k]])

\* the second half of normalizeForEPUB
WrapParagraphs(htmlContent) ==
  IF StartsBlock(TrimLeft(htmlContent)) THEN htmlContent
  ELSE WrapEach(SplitAt(htmlContent, MatchesOf(BlankLineRe, htmlContent)))

\* output.normalizeForEPUB
normalizeForEPUB(htmlContent) == WrapParagraphs(selfCloseFrom(htmlContent, 1))

(***************************************************************************)
(* Sample documents.  A block is a node list whose parent fields are       *)
(* relative to the block (0: the element the block is put under); a        *)
(* document is the parser's html/head/body skeleton with blocks under      *)
(* head and under body.                                                    *)
(***************************************************************************)
MaxBlocks == 2

ProseLen == 120

ScenarioProseLen == 600

TailLen == 401

Shift(block, off, attach) ==
  [k \in 1..Len(block) |->
     [block[k] EXCEPT !.parent = IF @ = 0 THEN attach ELSE @ + off]]

RECURSIVE Place(_, _, _)
\* the blocks laid out one after the other under node `attach`, the first
\* at position off + 1
Place(blocks, off, attach) ==
  IF blocks = <<>> THEN <<>>
  ELSE Shift(Head(blocks), off, attach)
         \o Place(Tail(blocks), off + Len(Head(blocks)), attach)

\* goquery.NewDocumentFromReader on a page with these head and body blocks
NewDocument(headBlocks, bodyBlocks) ==
  LET head  == Place(headBlocks, 2, 2)
      nBody == 3 + Len(head)
      nodes == <<Elem(W.html, <<>>, <<>>, 0), Elem(W.head, <<>>, <<>>, 1)>>
                 \o head
                 \o <<Elem(W.body, <<>>, <<>>, 1)>>
                 \o Place(bodyBlocks, nBody, nBody)
  IN  [nodes |-> nodes, alive |-> 1..Len(nodes)]

\* <article class="content"><p>aaa...</p></article>
BlockArticle(n) ==
  <<Elem(W.article, W.content, <<>>, 0), Elem(W.p, <<>>, <<>>, 1), Text(Rep("a", n), 2)>>

\* <nav><a>nn</a></nav>
BlockNav ==
  <<Elem(W.nav, <<>>, <<>>, 0), Elem(W.a, <<>>, <<>>, 1), Text(Rep("n", 2), 2)>>

\* <div class="ad">dddd</div>
BlockAd == <<Elem(W.div, W.ad, <<>>, 0), Text(Rep("d", 4), 1)>>

\* <div class="post content"><div class="ad">dd</div><script>cccccccc</script>
\* <p> xxxxxx</p></div>
BlockPost ==
  <<Elem(W.div, W.post \o <<" ">> \o W.content, <<>>, 0),
    Elem(W.div, W.ad, <<>>, 1), Text(Rep("d", 2), 2),
    Elem(W.script, <<>>, <<>>, 1), Text(Rep("c", 8), 4),
    Elem(W.p, <<>>, <<>>, 1), Text(<<" ">> \o Rep("x", 6), 6)>>

\* <div><script>cccccc</script></div>
BlockScriptOnly ==
  <<Elem(W.div, <<>>, <<>>, 0), Elem(W.script, <<>>, <<>>, 1), Text(Rep("c", 6), 2)>>

\* <section class="content"></section>
BlockEmpty == <<Elem(W.section, W.content, <<>>, 0)>>

\* <div class="story"><p>ss</p><p>ss</p><p>ss</p></div>
BlockStory ==
  <<Elem(W.div, W.story, <<>>, 0),
    Elem(W.p, <<>>, <<>>, 1), Text(Rep("s", 2), 2),
    Elem(W.p, <<>>, <<>>, 1), Text(Rep("s", 2), 4),
    Elem(W.p, <<>>, <<>>, 1), Text(Rep("s", 2), 6)>>

\* <div class="ad"><p>ssssss</p></div>
BlockAdStory ==
  <<Elem(W.div, W.ad, <<>>, 0), Elem(W.p, <<>>, <<>>, 1), Text(Rep("s", 6), 2)>>

\* <title>Site</title>
BlockTitle == <<Elem(W.title, <<>>, <<>>, 0), Text(<<"S","i","t","e">>, 1)>>

\* <p> yyyyy </p>
BlockPara == <<Elem(W.p, <<>>, <<>>, 0), Text(<<" ">> \o Rep("y", 5) \o <<" ">>, 1)>>

BodyBlocks ==
  {BlockArticle(ProseLen), BlockPost, BlockScriptOnly, BlockEmpty, BlockStory,
   BlockPara}

\* the bodies of at most MaxBlocks blocks, no block twice
BlockLists ==
  UNION {{bl \in [1..n -> BodyBlocks \ {BlockPara}] :
            \A i, j \in 1..n : bl[i] = bl[j] => i = j} : n \in 0..MaxBlocks}

\* Scenario A: the article with 600 characters of prose, a nav block and
\* three ad blocks
\* <div class="story"><p>aaa...</p>bbb...</div>: the paragraph is denser than
\* the block around it, which alone is longer than VeryLongTextLen
BlockLongStory ==
  <<Elem(W.div, W.story, <<>>, 0), Elem(W.p, <<>>, <<>>, 1),
    Text(Rep("a", ScenarioProseLen), 2), Text(Rep("b", TailLen), 1)>>

ScenarioA ==
  NewDocument(<<>>, <<BlockNav, BlockAd, BlockArticle(ScenarioProseLen), BlockAd, BlockAd>>)

Docs == {NewDocument(<<>>, bl) : bl \in BlockLists} \cup {ScenarioA}

(***************************************************************************)
(* Strategy configurations and extraction options.                         *)
(***************************************************************************)
CSSSelectorStrategy(selector, exclude) ==
  [kind |-> "css_selector", Selector |-> selector, ExcludeSelectors |-> exclude]

TextDensityStrategy(minDensityScore, minBlockSize) ==
  [kind |-> "text_density", MinDensityScore |-> minDensityScore,
   MinBlockSize |-> minBlockSize]

XPathRegexStrategy(patterns) == [kind |-> "xpath_regex", Patterns |-> patterns]

DOMPositionStrategy == [kind |-> "dom_position"]

HybridStrategy(strategies) == [kind |-> "hybrid", Strategies |-> strategies]

\* NewHybridStrategy(cssSelector, excludeSelectors, textDensity)
NewHybridStrategy(cssSelector, excludeSelectors, textDensity) ==
  HybridStrategy(
    (IF cssSelector # <<>>
     THEN <<CSSSelectorStrategy(cssSelector, excludeSelectors)>> ELSE <<>>)
    \o <<textDensity, DOMPositionStrategy>>)

SelContent == <<Sel(<<>>, W.content, <<>>)>>

SelArticleContent == <<Sel(W.article, W.content, <<>>)>>

SelP == <<Sel(W.p, <<>>, <<>>)>>

SelH1 == <<Sel(W.h1, <<>>, <<>>)>>

SelAd == <<Sel(<<>>, W.ad, <<>>)>>

SmallBlockSize == 4

CSSStrategies ==
  {CSSSelectorStrategy(sel, ex) :
     sel \in {<<>>, SelContent, SelArticleContent, SelP, SelH1},
     ex  \in {<<>>, <<SelAd>>, <<SelAd, SelP>>}}

DensityStrategies ==
  {TextDensityStrategy(Frac(0, 1), 0),
   TextDensityStrategy(Frac(1, 2), SmallBlockSize),
   TextDensityStrategy(Frac(1, 10), SmallBlockSize)}

HybridStrategies ==
  {HybridStrategy(<<>>),
   NewHybridStrategy(<<>>, <<>>, TextDensityStrategy(Frac(0, 1), 0)),
   NewHybridStrategy(SelArticleContent, <<>>, TextDensityStrategy(Frac(0, 1), 0)),
   NewHybridStrategy(SelContent, <<SelAd>>, TextDensityStrategy(Frac(1, 2), SmallBlockSize)),
   HybridStrategy(<<TextDensityStrategy(Frac(1, 10), SmallBlockSize),
                    CSSSelectorStrategy(SelP, <<>>)>>),
   HybridStrategy(<<DOMPositionStrategy, CSSSelectorStrategy(SelP, <<>>)>>)}

Strategies ==
  CSSStrategies \cup DensityStrategies \cup {DOMPositionStrategy} \cup HybridStrategies

\* DefaultExtractionOptions, with CleanScripts either way
DefaultMinContentLength == 100

ExtractionOptions(minContentLength, cleanScripts) ==
  [TitleSelector |-> <<>>, TitleRegex |-> NoPattern,
   MinContentLength |-> minContentLength, CleanScripts |-> cleanScripts]

(***************************************************************************)
(* State.                                                                  *)
(***************************************************************************)
VARIABLES
  doc,        \* the document handed to the strategies, as it is now
  doc0,       \* the document as it was handed in
  opts,       \* the ExtractionOptions
  strat,      \* the strategy called directly
  returns,    \* the returns of the direct calls so far, oldest first
  strategies, \* ContentExtractor.strategies
  pc,         \* where the call in progress is: "idle"; "loop", "done" for
              \* ContentExtractor.Extract; "title", "titled" for ExtractTitle
  idx,        \* the index of the loop over ce.strategies
  result,     \* the ExtractionResult under construction
  lastErr,    \* lastErr of ContentExtractor.Extract ("" is nil)
  err,        \* the error ContentExtractor.Extract returned ("" is nil)
  invoked,    \* the strategy calls ContentExtractor.Extract made, in order
  title,      \* the title ExtractTitle returned
  html,       \* the markup handed to the sanitizers, as it is now
  sanitized   \* the sanitizer calls so far: [by, output], oldest first

docVars == <<doc, doc0, opts>>

strategyVars == <<strat, returns>>

extractorVars == <<strategies, pc, idx, result, lastErr, err, invoked>>

titleVars == <<title>>

sanitizerVars == <<html, sanitized>>

VARIABLES
  cfg         \* the ContentDetectionConfig the strategy was built from

configVars == <<cfg>>

VARIABLES
  polite,       \* Requester.config
  robotsTxt,    \* what the host answers to GET /robots.txt, and the requests
                \* for it the host has received, oldest first
  now,          \* the clock, in milliseconds
  lastRequest,  \* Requester.lastRequest (0: the zero time)
  mutex,        \* the goroutine that holds Requester.mutex (0: none)
  robotsCache,  \* Requester.robotsCache, a function of the domains cached
  fetch,        \* the Fetch call of each goroutine, and where it is
  sent,         \* the GET requests for target URLs sent so far, oldest first
  fetched       \* the Fetch calls that returned, oldest first

requesterVars == <<polite, robotsTxt, now, lastRequest, mutex, robotsCache, fetch, sent, fetched>>

VARIABLES
  navigation,   \* ChapterNavigator.config, the NavigationConfig
  navigator,    \* ChapterNavigator.chapters and .visited
  ws,           \* WebScraper.chapters
  scrape,       \* where ScrapeAll is, the slice its loop ranges over, its error
  attempts      \* the Index of each scrapeChapter call so far, oldest first

scraperVars == <<navigation, navigator, ws, scrape, attempts>>

VARIABLES
  documents,    \* the document each goroutine handed to Extract, as it is now
  documents0,   \* the documents as they were handed in
  calls         \* the Extract call of each goroutine: where it is, its locals

concurrentVars == <<documents, documents0, calls>>

\* the variables of the program around the extraction core
scrapingVars == <<configVars, requesterVars, scraperVars, concurrentVars>>

vars == <<doc, doc0, opts, strat, returns,
          strategies, pc, idx, result, lastErr, err, invoked,
          title, html, sanitized, scrapingVars>>

\* result := &ExtractionResult{Warnings: make([]string, 0)}
NewResult == [Content |-> <<>>, Title |-> <<>>, StrategyUsed |-> "", Warnings |-> <<>>]

\* the extractor's variables while no ContentExtractor is in use
ExtractorIdle ==
  /\ strategies = <<>>
  /\ pc = "idle"
  /\ idx = 0
  /\ result = NewResult
  /\ lastErr = ""
  /\ err = ""
  /\ invoked = <<>>

\* the direct-call variables while no strategy is called directly
StrategyIdle == strat = [kind |-> "none"] /\ returns = <<>>

\* the title and sanitizer variables while neither is in use
TitleIdle == title = <<>>

SanitizerIdle == html = <<>> /\ sanitized = <<>>

\* no strategy was built from a configuration
ConfigIdle == cfg = [Strategy |-> "none"]

\* no Requester is in use
RequesterIdle ==
  /\ polite = [DelayMS |-> 0, RespectRobotsTxt |-> FALSE]
  /\ robotsTxt = [status |-> "none", body |-> <<>>, requests |-> <<>>]
  /\ now = 0
  /\ lastRequest = 0
  /\ mutex = 0
  /\ robotsCache = <<>>
  /\ fetch = <<>>
  /\ sent = <<>>
  /\ fetched = <<>>

\* no WebScraper has been made
ScraperIdle ==
  /\ navigation = [Method |-> "none"]
  /\ navigator = [chapters |-> <<>>, visited |-> {}]
  /\ ws = [chapters |-> <<>>]
  /\ scrape = [pc |-> "idle"]
  /\ attempts = <<>>

\* no goroutine calls the ContentExtractor
ConcurrentIdle ==
  /\ documents = <<>>
  /\ documents0 = <<>>
  /\ calls = <<>>

ScrapingIdle == ConfigIdle /\ RequesterIdle /\ ScraperIdle /\ ConcurrentIdle

(***************************************************************************)
(* Direct calls of one strategy's Extract, repeated on the same document.  *)
(***************************************************************************)
MaxCalls == 2

InitStrategy ==
  /\ doc \in Docs
  /\ doc0 = doc
  /\ opts \in {ExtractionOptions(DefaultMinContentLength, cs) : cs \in BOOLEAN}
  /\ strat \in Strategies
  /\ returns = <<>>
  /\ ExtractorIdle
  /\ TitleIdle
  /\ SanitizerIdle
  /\ ScrapingIdle

\* one call: the return is logged with the tree the call was handed
Called(r) ==
  /\ Len(returns) < MaxCalls
  /\ returns' = Append(returns, [content |-> r.content, err |-> r.err,
                                 node |-> r.node, calls |-> r.calls,
                                 before |-> doc])
  /\ doc' = r.doc
  /\ UNCHANGED <<doc0, opts, strat>>
  /\ UNCHANGED <<extractorVars, titleVars, sanitizerVars, scrapingVars>>

CallCSSSelector ==
  /\ strat.kind = "css_selector"
  /\ Called(CSSSelectorStrategy_Extract(strat, doc, opts))

CallTextDensity ==
  /\ strat.kind = "text_density"
  /\ Called(TextDensityStrategy_Extract(strat, doc, opts))

CallDOMPosition ==
  /\ strat.kind = "dom_position"
  /\ Called(DOMPositionStrategy_Extract(strat, doc, opts))

CallHybrid ==
  /\ strat.kind = "hybrid"
  /\ Called(HybridStrategy_Extract(strat, doc, opts))

NextStrategy == CallCSSSelector \/ CallTextDensity \/ CallDOMPosition \/ CallHybrid

SpecStrategy == InitStrategy /\ [][NextStrategy]_vars

\* the pages the density strategy is called on by itself: the sample pages
\* of one block, a page of two equal paragraphs, the page of the long story,
\* a page of a paragraph inside an advertisement and Scenario A
DensityDocs ==
  {NewDocument(<<>>, <<b>>) : b \in BodyBlocks}
    \cup {NewDocument(<<>>, <<>>), NewDocument(<<>>, <<BlockPara, BlockPara>>),
          NewDocument(<<>>, <<BlockLongStory>>), NewDocument(<<>>, <<BlockStory, BlockPost>>),
          NewDocument(<<>>, <<BlockAdStory>>),
          ScenarioA}

InitDensity ==
  /\ doc \in DensityDocs
  /\ doc0 = doc
  /\ opts \in {ExtractionOptions(DefaultMinContentLength, cs) : cs \in BOOLEAN}
  /\ strat \in DensityStrategies
  /\ returns = <<>>
  /\ ExtractorIdle
  /\ TitleIdle
  /\ SanitizerIdle
  /\ ScrapingIdle

NextDensity == CallTextDensity

SpecDensity == InitDensity /\ [][NextDensity]_vars

(***************************************************************************)
(* The strategy buildStrategy makes of a ContentDetectionConfig, called on *)
(* a page.                                                                 *)
(***************************************************************************)
ContentDetectionConfig(strategy, cssSelector, excludeSelectors, textDensity, regexPatterns) ==
  [Strategy |-> strategy, CSSSelector |-> cssSelector,
   ExcludeSelectors |-> excludeSelectors,
   TextDensity |-> [MinDensityScore |-> textDensity.MinDensityScore,
                    MinBlockSize |-> textDensity.MinBlockSize],
   RegexPatterns |-> regexPatterns]

\* scraper.buildStrategy(cfg)
buildStrategy(c) ==
  CASE c.Strategy = "css_selector" ->
         CSSSelectorStrategy(c.CSSSelector, c.ExcludeSelectors)
    [] c.Strategy = "text_density" ->
         TextDensityStrategy(c.TextDensity.MinDensityScore, c.TextDensity.MinBlockSize)
    [] c.Strategy = "xpath_regex" -> XPathRegexStrategy(c.RegexPatterns)
    [] c.Strategy = "dom_position" -> DOMPositionStrategy
    [] c.Strategy = "hybrid" ->
         HybridStrategy(
           (IF c.CSSSelector # <<>>
            THEN <<CSSSelectorStrategy(c.CSSSelector, c.ExcludeSelectors)>> ELSE <<>>)
           \o <<TextDensityStrategy(c.TextDensity.MinDensityScore,
                                    c.TextDensity.MinBlockSize),
                DOMPositionStrategy>>)
    [] OTHER -> DOMPositionStrategy

\* <div id="story"> One\nTwo </div>
BlockStoryId ==
  <<Elem(W.div, <<>>, W.story, 0), Text(<<" ","O","n","e","\n","T","w","o"," ">>, 1)>>

\* <div id="story">(.*?)</div>, written with an upper-case tag name
StoryPattern ==
  Cat(<<Lit(<<"<","D","I","V"," ","i","d","=","\"","s","t","o","r","y","\"",">">>, FALSE), Group(1, Star(Dot, 0, FALSE)),
        Lit(<<"<","/","d","i","v",">">>, FALSE)>>)

\* <p>(.*)</p>
ParagraphPattern ==
  Cat(<<Lit(<<"<","p",">">>, FALSE), Group(1, Star(Dot, 0, TRUE)), Lit(<<"<","/","p",">">>, FALSE)>>)

\* <p>(\s*)
BlankPattern ==
  Cat(<<Lit(<<"<","p",">">>, FALSE), Group(1, Star(Class(WS, FALSE), 0, TRUE))>>)

\* <p>.*?</p>
NoGroupPattern ==
  Cat(<<Lit(<<"<","p",">">>, FALSE), Star(Dot, 0, FALSE), Lit(<<"<","/","p",">">>, FALSE)>>)

RegexPatterns == {StoryPattern, ParagraphPattern, BlankPattern, NoGroupPattern, BadPattern}

MaxPatterns == 2

PatternLists == UNION {[1..n -> RegexPatterns] : n \in 0..MaxPatterns}

\* the pages the configured strategy is called on
ConfiguredDocs ==
  {NewDocument(<<>>, bl) :
     bl \in {<<>>, <<BlockStoryId>>, <<BlockPara>>, <<BlockStory>>, <<BlockEmpty>>,
             <<BlockPara, BlockStoryId>>, <<BlockStoryId, BlockStory>>,
             <<BlockEmpty, BlockPara>>}}

SmallDensity == [MinDensityScore |-> Frac(1, 2), MinBlockSize |-> SmallBlockSize]

DefaultDensity == [MinDensityScore |-> Frac(3, 10), MinBlockSize |-> DefaultMinBlockSize]

Configs ==
  {ContentDetectionConfig("xpath_regex", <<>>, <<>>, DefaultDensity, ps) : ps \in PatternLists}
    \cup {ContentDetectionConfig("hybrid", sel, <<>>, DefaultDensity, ps) :
            sel \in {<<>>, SelContent}, ps \in {<<>>, <<StoryPattern>>}}
    \cup {ContentDetectionConfig(s, SelP, <<SelAd>>, SmallDensity, <<>>) :
            s \in {"css_selector", "text_density", "dom_position", ""}}

\* NewWebScraper: the strategy and the options of the scraper
InitConfigured ==
  /\ cfg \in Configs
  /\ strat = buildStrategy(cfg)
  /\ doc \in ConfiguredDocs
  /\ doc0 = doc
  /\ opts = ExtractionOptions(DefaultMinContentLength, TRUE)
  /\ returns = <<>>
  /\ ExtractorIdle
  /\ TitleIdle
  /\ SanitizerIdle
  /\ RequesterIdle
  /\ ScraperIdle
  /\ ConcurrentIdle

CallXPathRegex ==
  /\ strat.kind = "xpath_regex"
  /\ Called(XPathRegexStrategy_Extract(strat, doc, opts))

NextConfigured ==
  \/ CallCSSSelector
  \/ CallTextDensity
  \/ CallXPathRegex
  \/ CallDOMPosition
  \/ CallHybrid

SpecConfigured == InitConfigured /\ [][NextConfigured]_vars

(***************************************************************************)
(* Requester.Fetch, one action per step of a goroutine; the clock moves    *)
(* between any two steps.                                                  *)
(***************************************************************************)
\* time.Hour, in milliseconds
Hour == 3600000

\* PoliteConfig.DelayMS of DefaultConfig
DefaultDelayMS == 2000

\* one step of the clock
TickMs == 1000

MaxTicks == 3

MaxFetches == 2

MaxLines == 3

\* when the Requester is made; Requester.lastRequest is the zero time, 0
StartTime == Hour

RobotsLines ==
  {<<"U","s","e","r","-","a","g","e","n","t",":"," ","*">>, <<" ","u","s","e","r","-","a","g","e","n","t"," ",":"," ","M","y","-","W","e","b","T","o","E","P","U","B","/","1",".","0"," ">>, <<"U","s","e","r","-","a","g","e","n","t",":"," ","G","o","o","g","l","e","b","o","t">>,
   <<"D","i","s","a","l","l","o","w",":"," ","/","a">>, <<"D","i","s","a","l","l","o","w",":">>}

RECURSIVE Join(_, _)
\* strings.Join
Join(parts, sep) ==
  IF parts = <<>> THEN <<>>
  ELSE IF Len(parts) = 1 THEN parts[1]
  ELSE parts[1] \o sep \o Join(Tail(parts), sep)

\* the robots.txt files of at most MaxLines lines
RobotsFiles ==
  {Join(lines, <<"\n">>) : lines \in UNION {[1..n -> RobotsLines] : n \in 0..MaxLines}}

Host == <<"e","x","a","m","p","l","e",".","c","o","m">>

TargetURLs ==
  {URL(<<"h","t","t","p">>, Host, <<"/","a","/","1">>), URL(<<"h","t","t","p">>, Host, <<"/","b">>), URL(<<"h","t","t","p">>, Host, <<>>)}

\* a goroutine that is not in Fetch
NotFetching == [pc |-> "idle", url |-> URL(<<>>, <<>>, <<>>), wakeAt |-> 0]

\* the goroutines inside Fetch
Fetching == {g \in DOMAIN fetch : fetch[g].pc \notin {"idle", "done"}}

\* NewRequester(politeConfig, userAgent, timeout) used by one goroutine,
\* against hosts with any robots.txt
InitRobots ==
  /\ polite \in {[DelayMS |-> 0, RespectRobotsTxt |-> r] : r \in BOOLEAN}
  /\ robotsTxt \in {[status |-> "ok", body |-> b, requests |-> <<>>] : b \in RobotsFiles}
                      \cup {[status |-> "notfound", body |-> <<>>, requests |-> <<>>]}
  /\ fetch = [g \in {1} |-> NotFetching]

\* NewRequester with the default delay, used by two goroutines
InitRate ==
  /\ polite \in {[DelayMS |-> DefaultDelayMS, RespectRobotsTxt |-> r] : r \in BOOLEAN}
  /\ robotsTxt = [status |-> "ok", body |-> <<"U","s","e","r","-","a","g","e","n","t",":"," ","*","\n","D","i","s","a","l","l","o","w",":"," ","/","a">>,
                  requests |-> <<>>]
  /\ fetch = [g \in {1, 2} |-> NotFetching]

InitRequester ==
  /\ InitRobots \/ InitRate
  /\ now = StartTime
  /\ lastRequest = 0
  /\ mutex = 0
  /\ robotsCache = <<>>
  /\ sent = <<>>
  /\ fetched = <<>>
  /\ ConfigIdle
  /\ ScraperIdle
  /\ ConcurrentIdle
  /\ StrategyIdle
  /\ ExtractorIdle
  /\ TitleIdle
  /\ SanitizerIdle
  /\ doc = 0
  /\ doc0 = 0
  /\ opts = 0

extractionVars == <<docVars, strategyVars, extractorVars, titleVars, sanitizerVars>>

\* a goroutine that is not blocked in a sleep, on the mutex or on an answer
\* from the network
Running(g) ==
  \/ fetch[g].pc \in {"robots", "get"}
  \/ fetch[g].pc = "wait" /\ mutex = 0
  \/ fetch[g].pc = "sleep" /\ now >= fetch[g].wakeAt

\* the clock moves while every goroutine in Fetch is blocked: the steps of
\* a goroutine between two blocking calls take no time on this clock
Tick ==
  /\ now < StartTime + MaxTicks * TickMs
  /\ \A g \in DOMAIN fetch : ~Running(g)
  /\ now' = now + TickMs
  /\ UNCHANGED <<polite, robotsTxt, lastRequest, mutex, robotsCache, fetch, sent, fetched>>
  /\ UNCHANGED <<extractionVars, configVars, scraperVars, concurrentVars>>

\* goroutine g calls r.Fetch(ctx, targetURL)
FetchCall ==
  \E g \in DOMAIN fetch, u \in TargetURLs :
    /\ fetch[g].pc \in {"idle", "done"}
    /\ Len(fetched) + Cardinality(Fetching) < MaxFetches
    /\ fetch' = [fetch EXCEPT ![g] = [pc |-> "wait", url |-> u, wakeAt |-> 0]]
    /\ UNCHANGED <<polite, robotsTxt, now, lastRequest, mutex, robotsCache, sent, fetched>>
    /\ UNCHANGED <<extractionVars, configVars, scraperVars, concurrentVars>>

\* waitForRateLimit: r.mutex.Lock(), and time.Sleep(delay - elapsed) when
\* elapsed < delay; the goroutine sleeps holding the mutex
LockRateLimit ==
  \E g \in DOMAIN fetch :
    /\ fetch[g].pc = "wait"
    /\ mutex = 0
    /\ mutex' = g
    /\ fetch' = [fetch EXCEPT ![g].pc = "sleep",
                              ![g].wakeAt = IF now - lastRequest < polite.DelayMS
                                            THEN lastRequest + polite.DelayMS
                                            ELSE now]
    /\ UNCHANGED <<polite, robotsTxt, now, lastRequest, robotsCache, sent, fetched>>
    /\ UNCHANGED <<extractionVars, configVars, scraperVars, concurrentVars>>

\* waitForRateLimit: r.lastRequest = time.Now() and the deferred Unlock;
\* Fetch goes on to the robots.txt check, or to the request
SetLastRequest ==
  \E g \in DOMAIN fetch :
    /\ fetch[g].pc = "sleep"
    /\ now >= fetch[g].wakeAt
    /\ lastRequest' = now
    /\ mutex' = 0
    /\ fetch' = [fetch EXCEPT ![g].pc = IF polite.RespectRobotsTxt THEN "robots" ELSE "get"]
    /\ UNCHANGED <<polite, robotsTxt, now, robotsCache, sent, fetched>>
    /\ UNCHANGED <<extractionVars, configVars, scraperVars, concurrentVars>>

\* Fetch after isAllowedByRobots found the rules: on to the request, or the
\* return of the "URL disallowed by robots.txt" error
Decided(g, rules) ==
  IF AllowedBy(rules, fetch[g].url)
  THEN /\ fetch' = [fetch EXCEPT ![g].pc = "get"]
       /\ UNCHANGED fetched
  ELSE /\ fetch' = [fetch EXCEPT ![g].pc = "done"]
       /\ fetched' = Append(fetched, [by |-> g, url |-> fetch[g].url,
                                      err |-> "URL disallowed by robots.txt"])

\* getRobotsRules: exists && time.Since(rules.Fetched) < time.Hour
Cached(domain) ==
  /\ domain \in DOMAIN robotsCache
  /\ now - robotsCache[domain].Fetched < Hour

\* getRobotsRules returns the cached rules
CheckRobotsCached ==
  \E g \in DOMAIN fetch :
    /\ fetch[g].pc = "robots"
    /\ Cached(DomainOf(fetch[g].url))
    /\ Decided(g, robotsCache[DomainOf(fetch[g].url)])
    /\ UNCHANGED <<polite, robotsTxt, now, lastRequest, mutex, robotsCache, sent>>
    /\ UNCHANGED <<extractionVars, configVars, scraperVars, concurrentVars>>

\* getRobotsRules sends GET domain + "/robots.txt"
RequestRobots ==
  \E g \in DOMAIN fetch :
    /\ fetch[g].pc = "robots"
    /\ ~Cached(DomainOf(fetch[g].url))
    /\ fetch' = [fetch EXCEPT ![g].pc = "robotsGet"]
    /\ robotsTxt' = [robotsTxt EXCEPT !.requests =
                       Append(@, [domain |-> DomainOf(fetch[g].url), at |-> now, by |-> g])]
    /\ UNCHANGED <<polite, now, lastRequest, mutex, robotsCache, sent, fetched>>
    /\ UNCHANGED <<extractionVars, configVars, scraperVars, concurrentVars>>

\* getRobotsRules has the answer: any status but 200 gives empty rules that
\* are not cached; a body is parsed, stamped and cached
ReceiveRobots ==
  \E g \in DOMAIN fetch :
    /\ fetch[g].pc = "robotsGet"
    /\ IF robotsTxt.status = "ok"
       THEN /\ robotsCache' =
                 [d \in DOMAIN robotsCache \cup {DomainOf(fetch[g].url)} |->
                    IF d = DomainOf(fetch[g].url)
                    THEN [parseRobotsTxt(robotsTxt.body) EXCEPT !.Fetched = now]
                    ELSE robotsCache[d]]
            /\ Decided(g, parseRobotsTxt(robotsTxt.body))
       ELSE /\ UNCHANGED robotsCache
            /\ Decided(g, [NoRules EXCEPT !.Fetched = now])
    /\ UNCHANGED <<polite, robotsTxt, now, lastRequest, mutex, sent>>
    /\ UNCHANGED <<extractionVars, configVars, scraperVars, concurrentVars>>

\* r.client.Do(req): the GET for the target URL leaves
SendGet ==
  \E g \in DOMAIN fetch :
    /\ fetch[g].pc = "get"
    /\ sent' = Append(sent, [url |-> fetch[g].url, at |-> now, by |-> g])
    /\ fetch' = [fetch EXCEPT ![g].pc = "body"]
    /\ UNCHANGED <<polite, robotsTxt, now, lastRequest, mutex, robotsCache, fetched>>
    /\ UNCHANGED <<extractionVars, configVars, scraperVars, concurrentVars>>

\* the answer to the GET: the body, or an error for a failed request or a
\* status other than 200
ReceiveBody ==
  \E g \in DOMAIN fetch, e \in {"", "unexpected status code"} :
    /\ fetch[g].pc = "body"
    /\ fetch' = [fetch EXCEPT ![g].pc = "done"]
    /\ fetched' = Append(fetched, [by |-> g, url |-> fetch[g].url, err |-> e])
    /\ UNCHANGED <<polite, robotsTxt, now, lastRequest, mutex, robotsCache, sent>>
    /\ UNCHANGED <<extractionVars, configVars, scraperVars, concurrentVars>>

NextRequester ==
  \/ Tick
  \/ FetchCall
  \/ LockRateLimit
  \/ SetLastRequest
  \/ CheckRobotsCached
  \/ RequestRobots
  \/ ReceiveRobots
  \/ SendGet
  \/ ReceiveBody

SpecRequester == InitRequester /\ [][NextRequester]_vars

(***************************************************************************)
(* ContentExtractor.Extract, one action per turn of its loop.              *)
(***************************************************************************)
MaxStrategies == 2

SmallMinContentLength == 5

\* the strategies a ContentExtractor is configured from
ExtractStrategies ==
  {CSSSelectorStrategy(SelContent, <<>>),
   CSSSelectorStrategy(SelP, <<>>),
   TextDensityStrategy(Frac(1, 10), SmallBlockSize),
   DOMPositionStrategy,
   NewHybridStrategy(<<>>, <<>>, TextDensityStrategy(Frac(0, 1), 0))}

StrategyLists == UNION {[1..n -> ExtractStrategies] : n \in 0..MaxStrategies}

\* the pages of one body block, and the page with an empty body
ExtractDocs ==
  {NewDocument(<<>>, <<b>>) : b \in BodyBlocks} \cup {NewDocument(<<>>, <<>>)}

\* NewContentExtractor(strategies, opts) and the entry of Extract(doc)
Init ==
  /\ doc \in ExtractDocs
  /\ doc0 = doc
  /\ opts \in {ExtractionOptions(m, cs) :
                 m \in {SmallMinContentLength, DefaultMinContentLength},
                 cs \in BOOLEAN}
  /\ strategies \in StrategyLists
  /\ pc = "loop"
  /\ idx = 1
  /\ result = NewResult
  /\ lastErr = ""
  /\ err = ""
  /\ invoked = <<>>
  /\ StrategyIdle
  /\ TitleIdle
  /\ SanitizerIdle
  /\ ScrapingIdle

\* the length test that accepts any content
TooShortNever(content, o) == FALSE

\* if len(content) < ce.options.MinContentLength
TooShort(content, o) == Len(content) < o.MinContentLength

\* the record of one strategy call: what it was handed and what it returned
Invocation(s, r) ==
  [name |-> Name(s), err |-> r.err, content |-> r.content, before |-> doc]

\* content, err := strategy.Extract(doc, ce.options); if err != nil { ... continue }
ExtractStrategyFailed ==
  /\ pc = "loop"
  /\ idx <= Len(strategies)
  /\ LET r == Extract(strategies[idx], doc, opts)
     IN  /\ r.err # ""
         /\ result' = [result EXCEPT !.Warnings =
               Append(@, "Strategy '" \o Name(strategies[idx]) \o "' failed: " \o r.err)]
         /\ lastErr' = r.err
         /\ invoked' = Append(invoked, Invocation(strategies[idx], r))
         /\ doc' = r.doc
  /\ idx' = idx + 1
  /\ UNCHANGED <<doc0, opts, strategies, pc, err>>
  /\ UNCHANGED <<strategyVars, titleVars, sanitizerVars, scrapingVars>>

\* if len(content) < ce.options.MinContentLength { ... continue }
ExtractTooShort ==
  /\ pc = "loop"
  /\ idx <= Len(strategies)
  /\ LET r == Extract(strategies[idx], doc, opts)
     IN  /\ r.err = ""
         /\ TooShort(r.content, opts)
         /\ result' = [result EXCEPT !.Warnings =
               Append(@, "Strategy '" \o Name(strategies[idx])
                           \o "' returned content too short")]
         /\ invoked' = Append(invoked, Invocation(strategies[idx], r))
         /\ doc' = r.doc
  /\ idx' = idx + 1
  /\ UNCHANGED <<doc0, opts, strategies, pc, lastErr, err>>
  /\ UNCHANGED <<strategyVars, titleVars, sanitizerVars, scrapingVars>>

\* result.Content = content; result.StrategyUsed = strategy.Name(); return result, nil
ExtractAccepted ==
  /\ pc = "loop"
  /\ idx <= Len(strategies)
  /\ LET r == Extract(strategies[idx], doc, opts)
     IN  /\ r.err = ""
         /\ ~TooShort(r.content, opts)
         /\ result' = [result EXCEPT !.Content = r.content,
                                     !.StrategyUsed = Name(strategies[idx])]
         /\ invoked' = Append(invoked, Invocation(strategies[idx], r))
         /\ doc' = r.doc
  /\ pc' = "done"
  /\ err' = ""
  /\ UNCHANGED <<doc0, opts, strategies, idx, lastErr>>
  /\ UNCHANGED <<strategyVars, titleVars, sanitizerVars, scrapingVars>>

\* after the loop: if lastErr != nil { return result, lastErr }; return result, nil
ExtractExhausted ==
  /\ pc = "loop"
  /\ idx > Len(strategies)
  /\ pc' = "done"
  /\ err' = lastErr
  /\ UNCHANGED <<doc, doc0, opts, strategies, idx, result, lastErr, invoked>>
  /\ UNCHANGED <<strategyVars, titleVars, sanitizerVars, scrapingVars>>

Next == ExtractStrategyFailed \/ ExtractTooShort \/ ExtractAccepted \/ ExtractExhausted

Spec == Init /\ [][Next]_vars

\* pages with a <title> in the head
TitledDocs ==
  {NewDocument(<<BlockTitle>>, <<b>>) : b \in {BlockPost, BlockPara, BlockEmpty}}

\* NewContentExtractor(strategies, opts) and the entry of Extract(doc) on a
\* page with a title
InitTitled ==
  /\ doc \in TitledDocs
  /\ doc0 = doc
  /\ opts \in {ExtractionOptions(SmallMinContentLength, cs) : cs \in BOOLEAN}
  /\ strategies \in StrategyLists
  /\ pc = "loop"
  /\ idx = 1
  /\ result = NewResult
  /\ lastErr = ""
  /\ err = ""
  /\ invoked = <<>>
  /\ StrategyIdle
  /\ TitleIdle
  /\ SanitizerIdle
  /\ ScrapingIdle

SpecTitled == InitTitled /\ [][Next]_vars

(***************************************************************************)
(* ExtractTitle on sample pages with headings.                             *)
(***************************************************************************)
MaxTitleBlocks == 2

\* <h1 class="chapter-title"> Ch1 </h1>
BlockH1Chapter == <<Elem(W.h1, W.chapter_title, <<>>, 0), Text(<<" ","C","h","1"," ">>, 1)>>

\* <h1> </h1>
BlockH1Blank == <<Elem(W.h1, <<>>, <<>>, 0), Text(<<" ">>, 1)>>

\* <h2 class="title"><span></span></h2>
BlockH2Tags == <<Elem(W.h2, W.title, <<>>, 0), Elem(W.span, <<>>, <<>>, 1)>>

\* <h2><span>T</span> x</h2>
BlockH2Rich ==
  <<Elem(W.h2, <<>>, <<>>, 0), Elem(W.span, <<>>, <<>>, 1), Text(<<"T">>, 2),
    Text(<<" ","x">>, 1)>>

\* <div class="story-title">S</div>
BlockStoryTitle == <<Elem(W.div, W.story_title, <<>>, 0), Text(<<"S">>, 1)>>

\* <h1 class="title">ttt...</h1> with a text of TitleMaxLen characters
BlockH1Long == <<Elem(W.h1, W.title, <<>>, 0), Text(Rep("t", TitleMaxLen), 1)>>

TitleBlocks ==
  {BlockH1Chapter, BlockH1Blank, BlockH2Tags, BlockH2Rich, BlockStoryTitle, BlockH1Long}

TitleDocs ==
  {NewDocument(hd, bl) :
     hd \in {<<>>, <<BlockTitle>>},
     bl \in UNION {[1..n -> TitleBlocks] : n \in 0..MaxTitleBlocks}}

\* the titleSelector settings: "", "h2", ".story-title"
TitleSelectors ==
  {<<>>, <<Sel(W.h2, <<>>, <<>>)>>, <<Sel(<<>>, W.story_title, <<>>)>>}

\* <TAG[^>]*>(.*?)</TAG>
HeadingPattern(tag, close) ==
  Cat(<<Lit(<<"<">> \o tag, FALSE), Star(Class({">"}, TRUE), 0, TRUE), Lit(<<">">>, FALSE),
        Group(1, Star(Class({"\n"}, TRUE), 0, FALSE)), Lit(<<"<","/">> \o close \o <<">">>, FALSE)>>)

\* the titleRegex settings: "", "<H2[^>]*>(.*?)</H2>", "<h1[^>]*>(.*?)</h1>"
TitlePatterns ==
  {NoPattern, HeadingPattern(<<"H","2">>, <<"H","2">>), HeadingPattern(W.h1, W.h1)}

InitTitle ==
  /\ doc \in TitleDocs
  /\ doc0 = doc
  /\ opts \in {[ExtractionOptions(DefaultMinContentLength, TRUE)
                  EXCEPT !.TitleSelector = s, !.TitleRegex = r] :
                 s \in TitleSelectors, r \in TitlePatterns}
  /\ pc = "title"
  /\ title = <<>>
  /\ StrategyIdle
  /\ strategies = <<>> /\ idx = 0 /\ result = NewResult
  /\ lastErr = "" /\ err = "" /\ invoked = <<>>
  /\ SanitizerIdle
  /\ ScrapingIdle

\* title := extractor.ExtractTitle(doc, ws.options.TitleSelector, ws.options.TitleRegex)
CallExtractTitle ==
  /\ pc = "title"
  /\ title' = ExtractTitle(doc, opts.TitleSelector, opts.TitleRegex)
  /\ pc' = "titled"
  /\ UNCHANGED <<docVars, strategyVars, sanitizerVars, scrapingVars>>
  /\ UNCHANGED <<strategies, idx, result, lastErr, err, invoked>>

NextTitle == CallExtractTitle

SpecTitle == InitTitle /\ [][NextTitle]_vars

(***************************************************************************)
(* The sanitizers applied to markup, and applied again to their output.    *)
(***************************************************************************)
MaxFragments == 3

MaxApplications == 2

\* the pieces the input markup is put together from
Fragments ==
  {<<"<","s","c","r","i","p","t",">">>, <<"<","/","s","c","r","i","p","t",">">>, <<"<","s","c","r">>, <<"i","p","t",">">>, <<"<","p",">">>, <<"<","/","p",">">>, <<"x">>,
   <<" ","i","d","=","\"","a","\"">>}

Inputs == {Flatten(fs) : fs \in UNION {[1..n -> Fragments] : n \in 0..MaxFragments}}

InitSanitize ==
  /\ html \in Inputs
  /\ sanitized = <<>>
  /\ doc = NewDocument(<<>>, <<>>)
  /\ doc0 = doc
  /\ opts = ExtractionOptions(DefaultMinContentLength, TRUE)
  /\ StrategyIdle
  /\ ExtractorIdle
  /\ TitleIdle
  /\ ScrapingIdle

\* the sanitizer `by` has returned `output` for the markup html
Sanitized(by, output) ==
  /\ Len(sanitized) < MaxApplications
  /\ sanitized' = Append(sanitized, [by |-> by, output |-> output])
  /\ html' = output
  /\ UNCHANGED <<docVars, strategyVars, extractorVars, titleVars, scrapingVars>>

\* content = extractor.CleanContent(content)
CallCleanContent == Sanitized("CleanContent", CleanContent(html))

\* NewHTMLNormalizer().Normalize(html)
CallNormalize == Sanitized("Normalize", Normalize(NewHTMLNormalizer, html))

\* sanitizeHTML(htmlContent)
CallSanitizeHTML == Sanitized("sanitizeHTML", sanitizeHTML(html))

NextSanitize == CallCleanContent \/ CallNormalize \/ CallSanitizeHTML

SpecSanitize == InitSanitize /\ [][NextSanitize]_vars

(***************************************************************************)
(* WebScraper.ScrapeAll for the url_pattern and toc methods, one action    *)
(* per step: the discovery of the chapters, one turn of the loop over      *)
(* them, the return.  Requester.Fetch is taken by its result here.         *)
(***************************************************************************)
MaxChapterNumber == 3

MaxLinks == 2

\* NavigationConfig, with the fields the two methods read
NavigationConfig(method, urlPattern, numberStart, numberEnd, tocUrl, tocLinkSelector,
                 maxChapters) ==
  [Method |-> method, URLPattern |-> urlPattern, NumberStart |-> numberStart,
   NumberEnd |-> numberEnd, TOCUrl |-> tocUrl, TOCLinkSelector |-> tocLinkSelector,
   MaxChapters |-> maxChapters]

NavigationConfigs ==
  {NavigationConfig("url_pattern", p, s, e, <<>>, <<>>, 0) :
     p \in {<<>>, <<"h","t","t","p",":","/","/","h",".","i","o","/","c","{","n","}">>}, s \in {0, 2}, e \in 1..MaxChapterNumber}
  \cup
  {NavigationConfig("toc", <<>>, 0, 0, u, l, m) :
     u \in {<<>>, <<"h","t","t","p",":","/","/","h",".","i","o","/","t","o","c">>}, l \in {<<>>, <<"a">>}, m \in {0, 1}}

\* the elements a TOC link selector finds: href and text
TOCAnchors ==
  {[href |-> <<"/","c","1">>, text |-> <<" ","O","n","e"," ">>], [href |-> <<"c","2">>, text |-> <<>>],
   [href |-> <<>>, text |-> <<"T","o","p">>], [href |-> <<"h","t","t","p",":","/","/","h",".","i","o","/","c","1">>, text |-> <<"A","g","a","i","n">>]}

TOCSelections == UNION {[1..n -> TOCAnchors] : n \in 0..MaxLinks}

\* the pages the chapter URLs answer with
ChapterPages ==
  {NewDocument(<<>>, <<BlockH1Chapter, BlockPost>>),
   NewDocument(<<BlockTitle>>, <<BlockPost>>),
   NewDocument(<<>>, <<BlockPara>>)}

\* what Requester.Fetch returns for a chapter: an error, or the body of a page
FetchResults ==
  {[err |-> "request failed", page |-> NewDocument(<<>>, <<>>)]}
  \cup {[err |-> "", page |-> d] : d \in ChapterPages}

\* regexp.MustCompile("(?i)" + regexPattern) of ExtractTitle is reached and
\* panics
ExtractTitlePanics(d, selector, regexPattern) ==
  /\ selector = <<>> \/ FirstText(d, selector) = <<>>
  /\ regexPattern # NoPattern
  /\ CompileFails(regexPattern)

\* Chapter{Title, Content, URL, Index}
Chapter(chapterTitle, content, url, index) ==
  [Title |-> chapterTitle, Content |-> content, URL |-> url, Index |-> index]

\* scrapeChapter from the title on, d being the document after Extract
scrapeChapterTitled(url, index, content, chapterTitle) ==
  [err |-> "", panic |-> FALSE,
   chapter |-> Chapter(IF chapterTitle = <<>> THEN ChapterN(index) ELSE chapterTitle,
                       CleanContent(content), url, index)]

NoChapter == Chapter(<<>>, <<>>, <<>>, 0)

\* scrapeChapter after ws.strategy.Extract(doc, ws.options) returned r
scrapeChapterExtracted(url, index, r) ==
  IF r.err # ""
  THEN [err |-> "failed to extract content", panic |-> FALSE, chapter |-> NoChapter]
  ELSE IF ExtractTitlePanics(r.doc, opts.TitleSelector, opts.TitleRegex)
  THEN [err |-> "", panic |-> TRUE, chapter |-> NoChapter]
  ELSE scrapeChapterTitled(url, index, r.content,
                           ExtractTitle(r.doc, opts.TitleSelector, opts.TitleRegex))

\* WebScraper.scrapeChapter(ctx, url, index), f being what Fetch returns:
\* the error, a panic, or the chapter appended to ws.chapters
scrapeChapter(url, index, f) ==
  IF f.err # ""
  THEN [err |-> "failed to fetch", panic |-> FALSE, chapter |-> NoChapter]
  ELSE scrapeChapterExtracted(url, index, ExtractSub(strat, f.page, opts))

\* NewWebScraper(cfg)
InitScrape ==
  /\ cfg \in {ContentDetectionConfig("css_selector", SelContent, <<>>, DefaultDensity, <<>>),
              ContentDetectionConfig("dom_position", <<>>, <<>>, DefaultDensity, <<>>)}
  /\ strat = buildStrategy(cfg)
  /\ opts \in {[ExtractionOptions(DefaultMinContentLength, TRUE)
                  EXCEPT !.TitleSelector = s, !.TitleRegex = r] :
                 s \in {<<>>, SelH1}, r \in {NoPattern, HeadingPattern(W.h1, W.h1), BadPattern}}
  /\ navigation \in NavigationConfigs
  /\ navigator = [chapters |-> <<>>, visited |-> {}]
  /\ ws = [chapters |-> <<>>]
  /\ scrape = [pc |-> "idle"]
  /\ attempts = <<>>
  /\ doc = 0
  /\ doc0 = 0
  /\ returns = <<>>
  /\ ExtractorIdle
  /\ TitleIdle
  /\ SanitizerIdle
  /\ RequesterIdle
  /\ ConcurrentIdle

\* ScrapeAll, method "url_pattern": scrapeByPattern up to its loop
ScrapeAllByPattern ==
  /\ scrape.pc = "idle"
  /\ navigation.Method = "url_pattern"
  /\ LET found == discoverByPattern(navigation)
     IN  IF found.err # ""
         THEN /\ scrape' = [pc |-> "returned", err |-> "failed to discover chapters"]
              /\ UNCHANGED navigator
         ELSE /\ scrape' = [pc |-> "loop", i |-> 1, chapters |-> found.chapters]
              /\ navigator' = [navigator EXCEPT !.chapters = found.chapters]
  /\ UNCHANGED <<navigation, ws, attempts>>
  /\ UNCHANGED <<extractionVars, configVars, requesterVars, concurrentVars>>

\* ScrapeAll, method "toc": scrapeByTOC up to its loop; the TOC page is
\* fetched, and its links are parsed
ScrapeAllByTOC ==
  /\ scrape.pc = "idle"
  /\ navigation.Method = "toc"
  /\ \E fetchErr \in {"", "request failed"}, links \in TOCSelections :
       LET found == ParseTOCPage(navigation, navigator.visited, links, navigation.TOCUrl)
       IN  IF navigation.TOCUrl = <<>>
           THEN /\ scrape' = [pc |-> "returned", err |-> "TOC URL not configured"]
                /\ UNCHANGED navigator
           ELSE IF fetchErr # ""
           THEN /\ scrape' = [pc |-> "returned", err |-> "failed to fetch TOC"]
                /\ UNCHANGED navigator
           ELSE IF found.err # ""
           THEN /\ scrape' = [pc |-> "returned", err |-> "failed to parse TOC links"]
                /\ UNCHANGED navigator
           ELSE /\ scrape' = [pc |-> "loop", i |-> 1, chapters |-> found.chapters]
                /\ navigator' = [chapters |-> found.chapters, visited |-> found.visited]
  /\ UNCHANGED <<navigation, ws, attempts>>
  /\ UNCHANGED <<extractionVars, configVars, requesterVars, concurrentVars>>

\* one turn of the loop of scrapeByPattern
ScrapeByPatternTurn ==
  /\ scrape.pc = "loop"
  /\ navigation.Method = "url_pattern"
  /\ scrape.i <= Len(scrape.chapters)
  /\ \E f \in FetchResults :
       LET chapterInfo == scrape.chapters[scrape.i]
           out == scrapeChapter(chapterInfo.URL, chapterInfo.Index, f)
       IN  /\ attempts' = Append(attempts, chapterInfo.Index)
           /\ IF out.panic
              THEN /\ scrape' = [scrape EXCEPT !.pc = "panicked"]
                   /\ UNCHANGED <<navigator, ws>>
              ELSE /\ scrape' = [scrape EXCEPT !.i = @ + 1]
                   /\ IF out.err # ""
                      THEN /\ navigator' = [navigator EXCEPT !.chapters =
                                 UpdateChapterStatus(@, chapterInfo.Index, "error")]
                           /\ UNCHANGED ws
                      ELSE /\ navigator' = [navigator EXCEPT !.chapters =
                                 UpdateChapterStatus(@, chapterInfo.Index, "scraped")]
                           /\ ws' = [ws EXCEPT !.chapters = Append(@, out.chapter)]
  /\ UNCHANGED navigation
  /\ UNCHANGED <<extractionVars, configVars, requesterVars, concurrentVars>>

\* one turn of the loop of scrapeByTOC
ScrapeByTOCTurn ==
  /\ scrape.pc = "loop"
  /\ navigation.Method = "toc"
  /\ scrape.i <= Len(scrape.chapters)
  /\ \E f \in FetchResults :
       LET chapterInfo == scrape.chapters[scrape.i]
           out == scrapeChapter(chapterInfo.URL, chapterInfo.Index, f)
       IN  /\ attempts' = Append(attempts, chapterInfo.Index)
           /\ IF out.panic
              THEN /\ scrape' = [scrape EXCEPT !.pc = "panicked"]
                   /\ UNCHANGED <<navigator, ws>>
              ELSE /\ scrape' = [scrape EXCEPT !.i = @ + 1]
                   /\ IF out.err # ""
                      THEN /\ navigator' = [navigator EXCEPT !.chapters =
                                 UpdateChapterStatus(@, chapterInfo.Index, "error")]
                           /\ UNCHANGED ws
                      ELSE /\ navigator' = [navigator EXCEPT !.chapters =
                                 UpdateChapterStatus(
                                   IF out.chapter.Title # chapterInfo.Title
                                   THEN UpdateChapterTitle(@, chapterInfo.Index, out.chapter.Title)
                                   ELSE @,
                                   chapterInfo.Index, "scraped")]
                           /\ ws' = [ws EXCEPT !.chapters = Append(@, out.chapter)]
  /\ UNCHANGED navigation
  /\ UNCHANGED <<extractionVars, configVars, requesterVars, concurrentVars>>

\* the loop is over: scrapeByPattern or scrapeByTOC returns nil
ScrapeAllReturn ==
  /\ scrape.pc = "loop"
  /\ scrape.i > Len(scrape.chapters)
  /\ scrape' = [pc |-> "returned", err |-> ""]
  /\ UNCHANGED <<navigation, navigator, ws, attempts>>
  /\ UNCHANGED <<extractionVars, configVars, requesterVars, concurrentVars>>

NextScrape ==
  \/ ScrapeAllByPattern
  \/ ScrapeAllByTOC
  \/ ScrapeByPatternTurn
  \/ ScrapeByTOCTurn
  \/ ScrapeAllReturn

SpecScrape == InitScrape /\ [][NextScrape]_vars

(***************************************************************************)
(* One ContentExtractor called from several goroutines, each on a document *)
(* of its own; one action per turn of the loop of a call.                  *)
(***************************************************************************)
Goroutines == {1, 2}

\* every goroutine hands in the same document
DocOfShared(g) == 1

\* the document goroutine g hands to Extract
DocOf(g) == g

ConcurrentStrategies ==
  {CSSSelectorStrategy(SelP, <<>>),
   TextDensityStrategy(Frac(1, 10), SmallBlockSize),
   DOMPositionStrategy}

ConcurrentDocs == {NewDocument(<<>>, <<BlockPost>>), NewDocument(<<>>, <<BlockScriptOnly>>)}

\* the strategy lists of the shared ContentExtractor: up to two of the
\* strategies, none twice
ConcurrentStrategyLists ==
  {<<>>} \cup {<<s>> : s \in ConcurrentStrategies}
         \cup {l \in [{1, 2} -> ConcurrentStrategies] : l[1] # l[2]}

\* a goroutine that has not called Extract
NotCalled == [pc |-> "idle", idx |-> 0, result |-> NewResult, lastErr |-> "", err |-> ""]

\* NewContentExtractor(strategies, opts), and the documents of the goroutines
InitConcurrent ==
  /\ strategies \in ConcurrentStrategyLists
  /\ opts \in {ExtractionOptions(SmallMinContentLength, cs) : cs \in BOOLEAN}
  /\ documents \in [Goroutines -> ConcurrentDocs]
  /\ documents0 = documents
  /\ calls = [g \in Goroutines |-> NotCalled]
  /\ doc = 0
  /\ doc0 = 0
  /\ pc = "idle"
  /\ idx = 0
  /\ result = NewResult
  /\ lastErr = ""
  /\ err = ""
  /\ invoked = <<>>
  /\ StrategyIdle
  /\ TitleIdle
  /\ SanitizerIdle
  /\ ConfigIdle
  /\ RequesterIdle
  /\ ScraperIdle

\* what a step of a goroutine leaves alone
ConcurrentStep ==
  /\ UNCHANGED <<documents0, doc, doc0, opts, strategies, pc, idx, result, lastErr, err, invoked>>
  /\ UNCHANGED <<strategyVars, titleVars, sanitizerVars, configVars, requesterVars, scraperVars>>

\* goroutine g enters Extract: result := &ExtractionResult{Warnings: make([]string, 0)}
GoExtract ==
  \E g \in Goroutines :
    /\ calls[g].pc = "idle"
    /\ calls' = [calls EXCEPT ![g] = [NotCalled EXCEPT !.pc = "loop", !.idx = 1]]
    /\ UNCHANGED documents
    /\ ConcurrentStep

\* content, err := strategy.Extract(doc, ce.options); if err != nil { ... continue }
GoStrategyFailed ==
  \E g \in Goroutines :
    /\ calls[g].pc = "loop"
    /\ calls[g].idx <= Len(strategies)
    /\ LET s == strategies[calls[g].idx]
           r == Extract(s, documents[DocOf(g)], opts)
       IN  /\ r.err # ""
           /\ calls' = [calls EXCEPT ![g].idx = @ + 1,
                                     ![g].lastErr = r.err,
                                     ![g].result.Warnings =
                                        Append(@, "Strategy '" \o Name(s) \o "' failed: " \o r.err)]
           /\ documents' = [documents EXCEPT ![DocOf(g)] = r.doc]
    /\ ConcurrentStep

\* if len(content) < ce.options.MinContentLength { ... continue }
GoTooShort ==
  \E g \in Goroutines :
    /\ calls[g].pc = "loop"
    /\ calls[g].idx <= Len(strategies)
    /\ LET s == strategies[calls[g].idx]
           r == Extract(s, documents[DocOf(g)], opts)
       IN  /\ r.err = ""
           /\ TooShort(r.content, opts)
           /\ calls' = [calls EXCEPT ![g].idx = @ + 1,
                                     ![g].result.Warnings =
                                        Append(@, "Strategy '" \o Name(s)
                                                    \o "' returned content too short")]
           /\ documents' = [documents EXCEPT ![DocOf(g)] = r.doc]
    /\ ConcurrentStep

\* result.Content = content; result.StrategyUsed = strategy.Name(); return result, nil
GoAccepted ==
  \E g \in Goroutines :
    /\ calls[g].pc = "loop"
    /\ calls[g].idx <= Len(strategies)
    /\ LET s == strategies[calls[g].idx]
           r == Extract(s, documents[DocOf(g)], opts)
       IN  /\ r.err = ""
           /\ ~TooShort(r.content, opts)
           /\ calls' = [calls EXCEPT ![g].pc = "done",
                                     ![g].err = "",
                                     ![g].result.Content = r.content,
                                     ![g].result.StrategyUsed = Name(s)]
           /\ documents' = [documents EXCEPT ![DocOf(g)] = r.doc]
    /\ ConcurrentStep

\* after the loop: if lastErr != nil { return result, lastErr }; return result, nil
GoExhausted ==
  \E g \in Goroutines :
    /\ calls[g].pc = "loop"
    /\ calls[g].idx > Len(strategies)
    /\ calls' = [calls EXCEPT ![g].pc = "done", ![g].err = calls[g].lastErr]
    /\ UNCHANGED documents
    /\ ConcurrentStep

NextConcurrent == GoExtract \/ GoStrategyFailed \/ GoTooShort \/ GoAccepted \/ GoExhausted

SpecConcurrent == InitConcurrent /\ [][NextConcurrent]_vars

(***************************************************************************)
(* Claims about the strategies, under SpecStrategy.                        *)
(***************************************************************************)

\* C3: no detection strategy mutates the document it is given: after any
\* call of any strategy's Extract, with cleanScripts either way, the tree
\* is the tree that was handed in.
C3_DocumentNeverMutated == doc = doc0

\* C4: TextDensityStrategy.Extract called twice in succession on the same
\* document with the same options selects the same element and returns the
\* same markup (and the same error) both times.
C4_DensityRepeatable ==
  (strat.kind = "text_density" /\ Len(returns) = 2)
    => /\ returns[1].node = returns[2].node
       /\ returns[1].content = returns[2].content
       /\ returns[1].err = returns[2].err

\* the sub-strategies of the hybrid that return without an error on tree d
WouldSucceed(d) ==
  {i \in 1..Len(strat.Strategies) : ExtractSub(strat.Strategies[i], d, opts).err = ""}

Accepted(call) == call.err = "" /\ Len(call.content) > 0

CSSMatches(d) == {j \in d.alive : Matches(d.nodes[j], strat.Selector)}

\* the descendants of node m that the CSS strategy is to drop: those at or
\* below a descendant matching an exclusion selector or, with cleanScripts,
\* at or below a script, style or noscript descendant
CSSDropped(d, m) ==
  LET banned(a) ==
        \/ \E k \in 1..Len(strat.ExcludeSelectors) :
             Matches(d.nodes[a], strat.ExcludeSelectors[k])
        \/ /\ opts.CleanScripts
           /\ d.nodes[a].kind = "elem"
           /\ d.nodes[a].tag \in {W.script, W.style, W.noscript}
  IN  {j \in Descendants(d, m) :
         \E a \in Descendants(d, m) : banned(a) /\ (a = j \/ IsAncestor(d, a, j))}

\* C9: CSSSelectorStrategy.Extract fails with the configuration error on
\* an empty selector, with the no-match error when the selector matches no
\* element, and otherwise returns the trimmed inner markup of the earliest
\* match in document order with the excluded (and, with cleanScripts, the
\* script/style/noscript) descendants removed.
C9_CSSSelectorExtract ==
  strat.kind = "css_selector" =>
    \A k \in 1..Len(returns) :
      LET r == returns[k]
          d == r.before
      IN  IF strat.Selector = <<>>
          THEN r.err = "no CSS selector configured" /\ r.content = <<>>
          ELSE IF CSSMatches(d) = {}
          THEN r.err = "selector matched no elements" /\ r.content = <<>>
          ELSE LET m == MinOf(CSSMatches(d))
               IN  /\ r.err = ""
                   /\ r.node = m
                   /\ r.content =
                        TrimSpace(Html([d EXCEPT !.alive = @ \ CSSDropped(d, m)], m))

\* C9 witness: a successful call where the selector matched several
\* elements and some descendant of the first was dropped.
C9_Witness ==
  /\ strat.kind = "css_selector"
  /\ Len(returns) >= 1
  /\ returns[1].err = ""
  /\ Cardinality(CSSMatches(returns[1].before)) >= 2
  /\ CSSDropped(returns[1].before, returns[1].node) # {}
  /\ returns[1].content # <<>>

\* the density strategy with the default thresholds
IsDefaultDensity == strat = TextDensityStrategy(Frac(0, 1), 0)

\* C10 as stated: on Scenario A the density strategy with default
\* thresholds selects the article element, and the content has length >= 100.
C10_ScenarioASelectsArticle ==
  (doc0 = ScenarioA /\ IsDefaultDensity /\ Len(returns) >= 1)
    => /\ returns[1].err = ""
       /\ doc0.nodes[returns[1].node].tag = W.article
       /\ Len(returns[1].content) >= 100

\* C10 as amended: on Scenario A the density strategy with default
\* thresholds selects the p element that is the article's child (it scores
\* 1.2 against the article's 600/607 * 1.2), and the content is the 600
\* characters of prose, so of length >= 100.
C10_ScenarioASelectsParagraph ==
  (doc0 = ScenarioA /\ IsDefaultDensity /\ Len(returns) >= 1)
    => /\ returns[1].err = ""
       /\ doc0.nodes[returns[1].node].tag = W.p
       /\ doc0.nodes[doc0.nodes[returns[1].node].parent].tag = W.article
       /\ doc0.nodes[doc0.nodes[returns[1].node].parent].class = W.content
       /\ returns[1].content = Rep("a", ScenarioProseLen)
       /\ Len(returns[1].content) >= 100

\* C10 witness: the density strategy has returned on Scenario A.
C10_Witness ==
  /\ doc0 = ScenarioA
  /\ IsDefaultDensity
  /\ Len(returns) >= 1
  /\ returns[1].err = ""

(***************************************************************************)
(* Claims about ContentExtractor.Extract, under Spec.                      *)
(***************************************************************************)

\* the calls of this run that returned no error and long enough content
Acceptable ==
  {k \in 1..Len(invoked) :
     invoked[k].err = "" /\ Len(invoked[k].content) >= opts.MinContentLength}

\* C1: whenever Extract returns without an error, for any strategy list
\* (the empty one and the all-too-short ones included), Content has length
\* >= MinContentLength and StrategyUsed names a configured strategy; and
\* when no strategy's output is accepted Extract returns an error.
C1_SuccessMeansAccepted ==
  pc = "done" =>
    /\ err = "" =>
         /\ Len(result.Content) >= opts.MinContentLength
         /\ \E k \in 1..Len(strategies) : Name(strategies[k]) = result.StrategyUsed
    /\ Acceptable = {} => err # ""

\* C2: when some strategy call of the run returns no error and content of
\* length >= MinContentLength, Extract returns without error, Content is
\* exactly the output of the first such call in list order, StrategyUsed
\* is that strategy's name, and no strategy is called after it; each call
\* in the log is the configured strategy's return on the tree it was
\* handed.
C2_FirstAcceptableReturned ==
  pc = "done" =>
    /\ \A k \in 1..Len(invoked) :
         LET out == Extract(strategies[k], invoked[k].before, opts)
         IN  /\ invoked[k].name = Name(strategies[k])
             /\ invoked[k].err = out.err
             /\ invoked[k].content = out.content
    /\ Acceptable = {} => Len(invoked) = Len(strategies)
    /\ Acceptable # {} =>
         LET w == MinOf(Acceptable)
         IN  /\ err = ""
             /\ result.Content = invoked[w].content
             /\ result.StrategyUsed = Name(strategies[w])
             /\ Len(invoked) = w

\* C2 witness: the first strategy returned content that is too short
\* without an error, and the output of the second was returned.
C2_Witness ==
  /\ pc = "done"
  /\ Len(invoked) = 2
  /\ invoked[1].err = ""
  /\ Len(invoked[1].content) < opts.MinContentLength
  /\ Acceptable = {2}
  /\ result.Content = invoked[2].content
  /\ result.Content # <<>>

\* C17: the result of a successful Extract carries in Title the title that
\* ExtractTitle resolves from the same document with the configured
\* selector and pattern.
C17_ResultCarriesTitle ==
  (pc = "done" /\ err = "" /\ result.StrategyUsed # "") =>
    result.Title = ExtractTitle(doc0, opts.TitleSelector, opts.TitleRegex)

\* the warning Extract records for call k of the run, which was not accepted
WarningOf(k) ==
  IF invoked[k].err # ""
  THEN "Strategy '" \o invoked[k].name \o "' failed: " \o invoked[k].err
  ELSE "Strategy '" \o invoked[k].name \o "' returned content too short"

\* the calls of the run that raised an error
Raised == {k \in 1..Len(invoked) : invoked[k].err # ""}

\* the strategies were invoked in list order, once each, none after an
\* accepted one
InvokedInOrder ==
  /\ Len(invoked) <= Len(strategies)
  /\ \A k \in 1..Len(invoked) : invoked[k].name = Name(strategies[k])
  /\ \A k \in Acceptable : k = Len(invoked)

\* one warning, in order, for each of the first n calls
WarnedFor(n) ==
  /\ Len(result.Warnings) = n
  /\ \A k \in 1..n : result.Warnings[k] = WarningOf(k)

\* C18: Extract invokes the configured strategies in list order, each at
\* most once, none after an accepted one, and gives up only after all of
\* them; on success the warnings are one per strategy before the winner,
\* in order; on failure they are one per configured strategy and the error
\* returned is the error of the last strategy that raised one.
C18_OrderWarningsLastError ==
  /\ InvokedInOrder
  /\ (pc = "done" /\ Acceptable # {}) => WarnedFor(Len(invoked) - 1)
  /\ (pc = "done" /\ Acceptable = {}) =>
       /\ Len(invoked) = Len(strategies)
       /\ WarnedFor(Len(strategies))
       /\ Raised # {}
       /\ err = invoked[MaxOf(Raised)].err

(***************************************************************************)
(* Claims about ExtractTitle, under SpecTitle.                             *)
(***************************************************************************)

\* the trimmed text of the first element of d, in document order, that
\* matches sel; "" when sel is empty or matches nothing
SelectorYield(d, sel) ==
  LET ms == {j \in d.alive : Matches(d.nodes[j], sel)}
  IN  IF sel = <<>> \/ ms = {} THEN <<>> ELSE TrimSpace(TextOf(d, MinOf(ms)))

\* the text of the first capturing group of the leftmost match of the
\* pattern (case-insensitive) in the markup of d; "" without pattern or match
Capture(d, re) ==
  IF re = NoPattern THEN <<>>
  ELSE LET found == FindStringSubmatch(CaseInsensitive(re), Html(d, 0))
       IN  IF found = <<>> THEN <<>> ELSE found[2]

\* the capture, trimmed and then with every <...> removed
RegexYield(d, re) == stripHTMLTags(TrimSpace(Capture(d, re)))

\* the text of the first fallback selector, in list order, whose first
\* match has a non-empty trimmed text of fewer than 200 characters
FallbackYield(d) ==
  LET ok == {k \in 1..Len(fallbackSelectors) :
               /\ SelectorYield(d, fallbackSelectors[k]) # <<>>
               /\ Len(SelectorYield(d, fallbackSelectors[k])) < TitleMaxLen}
  IN  IF ok = {} THEN <<>> ELSE SelectorYield(d, fallbackSelectors[MinOf(ok)])

\* C8 (as stated): the selector's non-empty trimmed text is returned; else,
\* when the pattern yields a non-empty first capturing group, the text of
\* the regex branch is returned regardless of the fallback list; the
\* fallback list decides only when both yield nothing.
C8_TitlePrecedence ==
  pc = "titled" =>
    IF SelectorYield(doc, opts.TitleSelector) # <<>>
    THEN title = SelectorYield(doc, opts.TitleSelector)
    ELSE IF Capture(doc, opts.TitleRegex) # <<>>
    THEN title = RegexYield(doc, opts.TitleRegex)
    ELSE title = FallbackYield(doc)

\* C8 (amended): the selector's non-empty trimmed text is returned; else,
\* when the first capturing group is non-empty after trimming and tag
\* stripping, that trimmed and stripped text is returned regardless of the
\* fallback list; else the first fallback selector, in list order, with a
\* non-empty trimmed text under 200 characters decides, and "" is returned
\* when there is none.
C8_TitlePrecedenceStripped ==
  pc = "titled" =>
    IF SelectorYield(doc, opts.TitleSelector) # <<>>
    THEN title = SelectorYield(doc, opts.TitleSelector)
    ELSE IF RegexYield(doc, opts.TitleRegex) # <<>>
    THEN title = RegexYield(doc, opts.TitleRegex)
    ELSE title = FallbackYield(doc)

\* C8 witness: a selector is configured and yields nothing, the pattern
\* yields a text that differs from its raw capture, the fallback list
\* would yield another title, and the pattern's text was returned.
C8_Witness ==
  /\ pc = "titled"
  /\ opts.TitleSelector # <<>>
  /\ SelectorYield(doc, opts.TitleSelector) = <<>>
  /\ RegexYield(doc, opts.TitleRegex) # <<>>
  /\ RegexYield(doc, opts.TitleRegex) # Capture(doc, opts.TitleRegex)
  /\ FallbackYield(doc) # <<>>
  /\ FallbackYield(doc) # RegexYield(doc, opts.TitleRegex)
  /\ title = RegexYield(doc, opts.TitleRegex)

(***************************************************************************)
(* Claims about the sanitizers, under SpecSanitize.                        *)
(***************************************************************************)

\* C6: applying CleanContent, or Normalize with the default settings, to
\* its own output returns that output unchanged.
C6_SanitizeIdempotent ==
  \A k \in 1..(Len(sanitized) - 1) :
    (/\ sanitized[k].by \in {"CleanContent", "Normalize"}
     /\ sanitized[k + 1].by = sanitized[k].by)
      => sanitized[k + 1].output = sanitized[k].output

\* the markup holds an opening tag of a script, style or noscript element
HasScriptElement(markup) ==
  \E tag \in {W.script, W.style, W.noscript} :
    FindFrom(OpenTagRe(tag, FALSE), markup, 1) # NoMatch

\* C7: the output of CleanContent, Normalize and sanitizeHTML holds no
\* opening tag of a script, style or noscript element, whatever the input.
C7_NoScriptElementRemains ==
  \A k \in 1..Len(sanitized) : ~HasScriptElement(sanitized[k].output)
(***************************************************************************)
(* Claims about the configured strategy, under SpecConfigured.             *)
(***************************************************************************)

\* the trimmed text of group 1 of match m of the markup; "" without a match
GroupText(markup, m) ==
  IF m.b = 0 THEN <<>> ELSE TrimSpace(Submatch(markup, m, 1))

\* the trimmed text of the first capturing group of the leftmost match of
\* "(?is)" + pattern in the markup; "" when the pattern does not compile,
\* has no group or does not match
FirstGroup(pattern, markup) ==
  IF pattern.t = "bad" THEN <<>>
  ELSE IF NumSubexp(pattern) = 0 THEN <<>>
  ELSE GroupText(markup, FindFrom(DotAll(CaseInsensitive(pattern)), markup, 1))

\* what each pattern of the list captures on the markup
Captures(patterns, markup) ==
  [j \in 1..Len(patterns) |-> FirstGroup(patterns[j], markup)]

\* the patterns that yield a non-empty capture
Yielding(captures) == {j \in 1..Len(captures) : captures[j] # <<>>}

\* the return r is the one C11 describes, given what the patterns capture
FirstYielding(r, captures) ==
  IF captures = <<>>
  THEN r.err = "no regex patterns configured" /\ r.content = <<>>
  ELSE IF Yielding(captures) = {}
  THEN r.err = "no regex patterns matched" /\ r.content = <<>>
  ELSE r.err = "" /\ r.content = captures[MinOf(Yielding(captures))]

\* C11: XPathRegexStrategy.Extract fails with the configuration error on an
\* empty pattern list; otherwise it returns the trimmed first capturing
\* group of the first pattern of the list whose group is non-empty after
\* trimming, whatever the later patterns match; patterns that do not
\* compile and patterns without a non-empty capture are passed over, and
\* the call fails with the no-pattern-match error only when no pattern of
\* the list yields a non-empty capture.  Stated of the latest return: every
\* return is the latest one in the state that logs it.
C11_FirstYieldingPattern ==
  (strat.kind = "xpath_regex" /\ returns # <<>>) =>
    FirstYielding(returns[Len(returns)],
                  Captures(strat.Patterns, Html(returns[Len(returns)].before, 0)))

\* the first pattern was passed over and the second one used
SecondUsed(r, captures) ==
  /\ Len(captures) >= 2
  /\ captures[1] = <<>>
  /\ captures[2] # <<>>
  /\ r.err = ""
  /\ r.content = captures[2]

\* C11 witness: the first pattern of the list does not compile or has no
\* non-empty capture, and the call returned the capture of the second.
C11_Witness ==
  /\ strat.kind = "xpath_regex"
  /\ Len(returns) >= 1
  /\ SecondUsed(returns[1], Captures(strat.Patterns, Html(returns[1].before, 0)))

\* the methods the configuration sets up for the hybrid strategy
ConfiguredMethods ==
  (IF cfg.CSSSelector # <<>> THEN {"css_selector"} ELSE {})
    \cup {"text_density", "dom_position"}
    \cup (IF cfg.RegexPatterns # <<>> THEN {"xpath_regex"} ELSE {})

\* C12: the hybrid strategy built from the configuration fails only after
\* each configured method (CSS selector, text density, regex patterns, DOM
\* position) has been attempted.
C12_HybridTriesAllMethods ==
  cfg.Strategy = "hybrid" =>
    \A k \in 1..Len(returns) :
      returns[k].err # "" =>
        \A m \in ConfiguredMethods :
          \E c \in 1..Len(returns[k].calls) : returns[k].calls[c].name = m

(***************************************************************************)
(* Claims about the Requester, under SpecRequester.                        *)
(***************************************************************************)
\* one line of robots.txt read as the protocol reads it: the User-agent
\* lines that follow one another open one group, which applies when any of
\* them names the agent; st is [applies, opening, listed]
GroupStep(st, ln) ==
  CASE ln.directive = <<"u","s","e","r","-","a","g","e","n","t">> ->
         [st EXCEPT !.applies = (st.opening /\ st.applies) \/ RelevantAgent(ln.value),
                    !.opening = TRUE]
    [] ln.directive = <<"d","i","s","a","l","l","o","w">> ->
         [st EXCEPT !.opening = FALSE,
                    !.listed = IF st.applies /\ ln.value # <<>>
                               THEN @ \cup {ln.value} ELSE @]
    [] OTHER -> st

RECURSIVE GroupLoop(_, _, _)
GroupLoop(lines, k, st) ==
  IF k > Len(lines) THEN st ELSE GroupLoop(lines, k + 1, GroupStep(st, RobotsLine(lines[k])))

\* the Disallow values listed in the groups of a robots.txt that apply to
\* all agents or to WebToEPUB
GroupDisallows(content) ==
  GroupLoop(Split(content, "\n"), 1, [applies |-> FALSE, opening |-> FALSE, listed |-> {}]).listed

\* the path of u has a listed Disallow value as prefix
Disallowed(u) == \E value \in GroupDisallows(robotsTxt.body) : HasPrefix(PathOf(u), value)

\* C13: with respectRobotsTxt enabled and the robots.txt of the host
\* retrieved, no GET is sent for a URL whose path has as prefix a Disallow
\* value of a group that applies to '*' or to WebToEPUB, and each Fetch of
\* such a URL returns the "disallowed by robots.txt" error.
C13_RobotsRespected ==
  (polite.RespectRobotsTxt /\ robotsTxt.status = "ok") =>
     /\ \A k \in 1..Len(sent) : ~Disallowed(sent[k].url)
     /\ \A k \in 1..Len(fetched) :
          Disallowed(fetched[k].url) => fetched[k].err = "URL disallowed by robots.txt"

\* C14: any two consecutive GET requests for target URLs are sent at least
\* DelayMS milliseconds apart, whether the calls of Fetch follow one another
\* or run in several goroutines, and however long the robots.txt check takes.
C14_ConsecutiveGetsApart ==
  \A k \in 2..Len(sent) : sent[k].at - sent[k - 1].at >= polite.DelayMS

(***************************************************************************)
(* Claims about ScrapeAll, under SpecScrape.                               *)
(***************************************************************************)
\* the chapters of the navigator that are neither scraped nor failed
Pending == {k \in 1..Len(navigator.chapters) :
              navigator.chapters[k].Status \notin {"scraped", "error"}}

\* C15: in url_pattern and toc navigation no failure of a chapter stops the
\* run: the chapters are attempted once each in index order, and when
\* ScrapeAll is over every discovered chapter is 'scraped' or 'error', so
\* that scraped + errors = total.
C15_EveryChapterAttempted ==
  /\ scrape.pc = "loop" => attempts = [k \in 1..(scrape.i - 1) |-> k]
  /\ scrape.pc \in {"returned", "panicked"} =>
       /\ attempts = [k \in 1..Len(navigator.chapters) |-> k]
       /\ Pending = {}
       /\ GetProgress(navigator.chapters).scraped + GetProgress(navigator.chapters).errors
            = GetProgress(navigator.chapters).total

(***************************************************************************)
(* Claims about concurrent calls of Extract, under SpecConcurrent.         *)
(***************************************************************************)
RECURSIVE AloneFrom(_, _, _, _)
\* what Extract returns for document d when it runs alone, and the document
\* it leaves: the run from strategy k on, with the warnings and the last
\* error so far
AloneFrom(k, d, warnings, e) ==
  IF k > Len(strategies)
  THEN [Content |-> <<>>, StrategyUsed |-> "", Warnings |-> warnings, err |-> e, doc |-> d]
  ELSE LET r == Extract(strategies[k], d, opts)
       IN  IF r.err # ""
           THEN AloneFrom(k + 1, r.doc,
                          Append(warnings, "Strategy '" \o Name(strategies[k])
                                             \o "' failed: " \o r.err), r.err)
           ELSE IF Len(r.content) < opts.MinContentLength
           THEN AloneFrom(k + 1, r.doc,
                          Append(warnings, "Strategy '" \o Name(strategies[k])
                                             \o "' returned content too short"), e)
           ELSE [Content |-> r.content, StrategyUsed |-> Name(strategies[k]),
                 Warnings |-> warnings, err |-> "", doc |-> r.doc]

Alone(d) == AloneFrom(1, d, <<>>, "")

\* the call of goroutine g against the run alone, alone
AsAlone(g, alone) ==
  /\ calls[g].pc = "loop" =>
       /\ Len(calls[g].result.Warnings) <= Len(alone.Warnings)
       /\ calls[g].result.Warnings = SubSeq(alone.Warnings, 1, Len(calls[g].result.Warnings))
  /\ calls[g].pc = "done" =>
       /\ calls[g].result.Content = alone.Content
       /\ calls[g].result.StrategyUsed = alone.StrategyUsed
       /\ calls[g].result.Warnings = alone.Warnings
       /\ calls[g].err = alone.err
       /\ documents[g] = alone.doc

DensityInForce(s) == IF s.MinDensityScore.n > 0 THEN s.MinDensityScore ELSE Frac(3, 10)

SizeInForce(s) == IF s.MinBlockSize > 0 THEN s.MinBlockSize ELSE DefaultMinBlockSize

TextLen(d, j) == Len(TrimSpace(TextOf(d, j)))

MarkupLen(d, j) == Len(Html(d, j))

\* the <body> of tree d
BodyOf(d) == CHOOSE b \in d.alive : d.nodes[b].tag = W.body

\* element j of tree d qualifies as a candidate for strategy s
Qualifies(d, j, s) ==
  /\ d.nodes[j].kind = "elem"
  /\ d.nodes[j].tag \in {W.div, W.article, W.section, W.main, W.p, W.td, W.blockquote}
  /\ \A b \in {W.nav, W.menu, W.sidebar, W.footer, W.header, W.ad, W.comment, W.share,
               W.social} :
        ~Contains(ToLower(d.nodes[j].class \o <<" ">> \o d.nodes[j].id), b)
  /\ TextLen(d, j) >= SizeInForce(s)
  /\ MarkupLen(d, j) # 0
  /\ QuotientGe(TextLen(d, j), MarkupLen(d, j), DensityInForce(s).n, DensityInForce(s).d)

Qualified(d, s) == {j \in Descendants(d, BodyOf(d)) : Qualifies(d, j, s)}

\* the <p> elements below j
Paragraphs(d, j) == {k \in Descendants(d, j) : d.nodes[k].kind = "elem" /\ d.nodes[k].tag = W.p}

\* the score of candidate j, in thousandths of its markup length: the
\* density times 1.2, 1.3 and 1.5 as earned
Thousandths(d, j) ==
  TextLen(d, j)
    * (IF TextLen(d, j) > LongTextLen THEN 12 ELSE 10)
    * (IF TextLen(d, j) > VeryLongTextLen THEN 13 ELSE 10)
    * (IF Cardinality(Paragraphs(d, j)) > ManyParagraphs THEN 15 ELSE 10)

\* candidate i scores at least what candidate j scores
ScoresAtLeast(d, i, j) ==
  QuotientGe(Thousandths(d, i), MarkupLen(d, i), Thousandths(d, j), MarkupLen(d, j))

\* the candidates of the highest score
Highest(d, C) == {i \in C : \A j \in C : ScoresAtLeast(d, i, j)}

\* the latest return of the strategy against the candidates of the tree it
\* was handed
WinnerIs(r, s, C) ==
  /\ C = {} <=> r.err = "no suitable content block found"
  /\ C = {} <=> r.err # ""
  /\ C # {} => r.node = MinOf(Highest(r.before, C))

\* C19: the winner of the density strategy is the candidate of the highest
\* score, the earliest in document order among equals, the candidates and
\* the score being as the claim defines them; the strategy fails with the
\* no-suitable-block error exactly when there is no candidate.
C19_DensityWinner ==
  (strat.kind = "text_density" /\ returns # <<>>) =>
    WinnerIs(returns[Len(returns)], strat,
             Qualified(returns[Len(returns)].before, strat))

\* the candidates of the tree the latest call was handed
LatestQualified == Qualified(returns[Len(returns)].before, strat)

\* C19 witness: the winner is a block of more than VeryLongTextLen
\* characters that is less dense than another candidate, a paragraph inside
\* it that comes later in document order.
C19_Witness ==
  /\ strat.kind = "text_density"
  /\ returns # <<>>
  /\ returns[Len(returns)].err = ""
  /\ TextLen(returns[Len(returns)].before, returns[Len(returns)].node) > VeryLongTextLen
  /\ \E j \in LatestQualified :
       /\ j > returns[Len(returns)].node
       /\ ~QuotientGe(TextLen(returns[Len(returns)].before, returns[Len(returns)].node),
                      MarkupLen(returns[Len(returns)].before, returns[Len(returns)].node),
                      TextLen(returns[Len(returns)].before, j),
                      MarkupLen(returns[Len(returns)].before, j))

(***************************************************************************)
(* Claims about the aggregated error of HybridStrategy, under SpecStrategy *)
(***************************************************************************)
\* the error messages the sub-strategies of a hybrid return
ErrorMessages ==
  {"selector matched no elements", "no CSS selector configured",
   "no suitable content block found", "no body element found",
   "no content found using DOM position heuristics",
   "no regex patterns matched", "no regex patterns configured"}

RECURSIVE Listed(_, _, _)

\* the entries "name: message" of sub-strategies 1..k, joined with "; "
Listed(subs, msgs, k) ==
  IF k = 0 THEN ""
  ELSE (IF k = 1 THEN "" ELSE Listed(subs, msgs, k - 1) \o "; ")
         \o Name(subs[k]) \o ": " \o msgs[k]

\* error e lists one entry per sub-strategy, in the order of the calls,
\* with the message of every call that returned an error
ListsEverySubStrategy(e, subs, subCalls) ==
  /\ Len(subCalls) = Len(subs)
  /\ \E msgs \in [1..Len(subs) -> ErrorMessages] :
       /\ \A j \in 1..Len(subs) : subCalls[j].err # "" => msgs[j] = subCalls[j].err
       /\ e = "all hybrid strategies failed: " \o Listed(subs, msgs, Len(subs))

\* C20: when a hybrid fails, its error lists one entry per configured
\* sub-strategy, in invocation order, each with the name of the sub-strategy
\* and its error message; a hybrid without sub-strategies fails with the
\* error "no strategies configured for hybrid extraction".
C20_HybridErrorListsEverySubStrategy ==
  (strat.kind = "hybrid" /\ returns # <<>>) =>
    /\ Len(strat.Strategies) = 0 =>
         returns[Len(returns)].err = "no strategies configured for hybrid extraction"
    /\ (Len(strat.Strategies) > 0 /\ returns[Len(returns)].err # "") =>
         ListsEverySubStrategy(returns[Len(returns)].err, strat.Strategies,
                               returns[Len(returns)].calls)

\* C20 restricted to the failures in which every sub-strategy returned an
\* error
C20_ListsEveryRaisedError ==
  (strat.kind = "hybrid" /\ returns # <<>> /\ Len(strat.Strategies) > 0
     /\ returns[Len(returns)].err # ""
     /\ \A j \in 1..Len(returns[Len(returns)].calls) :
          returns[Len(returns)].calls[j].err # "") =>
    ListsEverySubStrategy(returns[Len(returns)].err, strat.Strategies,
                          returns[Len(returns)].calls)

(***************************************************************************)
(* DOMPositionStrategy.Extract called by itself                            *)
(***************************************************************************)
ParagraphTags == <<"<","p",">","<","/","p",">">>

\* <article class="content">  <p>aaa...</p></article>: white space in front of
\* a paragraph of n characters
BlockArticlePadded(n) ==
  <<Elem(W.article, W.content, <<>>, 0), Text(Rep(" ", 2), 1),
    Elem(W.p, <<>>, <<>>, 1), Text(Rep("a", n), 3)>>

\* <div class="story"><div class="ad">dd</div><p>aaa...</p></div>
BlockStoryProse ==
  <<Elem(W.div, W.story, <<>>, 0),
    Elem(W.div, W.ad, <<>>, 1), Text(Rep("d", 2), 2),
    Elem(W.p, <<>>, <<>>, 1), Text(Rep("a", ProseLen), 4)>>

\* <div class="story"><div class="ad">ddd...</div><script>ccc...</script>
\* <p>ss</p></div>
BlockStoryAds ==
  <<Elem(W.div, W.story, <<>>, 0),
    Elem(W.div, W.ad, <<>>, 1), Text(Rep("d", ProseLen), 2),
    Elem(W.script, <<>>, <<>>, 1), Text(Rep("c", ProseLen), 4),
    Elem(W.p, <<>>, <<>>, 1), Text(Rep("s", 2), 6)>>

\* the blocks of the pages: articles whose inner markup has DOMMinLength
\* characters (one of them after trimming only) and one character more, a
\* story longer than that without its advertisement, a story longer than
\* that only with its advertisement and script, and short blocks
DOMBlocks ==
  {BlockArticle(DOMMinLength - Len(ParagraphTags)),
   BlockArticlePadded(DOMMinLength - Len(ParagraphTags)),
   BlockArticle(DOMMinLength - Len(ParagraphTags) + 1),
   BlockStoryProse, BlockStoryAds, BlockEmpty, BlockPost}

DOMDocs ==
  {NewDocument(<<>>, bl) :
     bl \in UNION {{l \in [1..n -> DOMBlocks] : \A i, j \in 1..n : l[i] = l[j] => i = j} :
                     n \in 0..MaxBlocks}}

InitDOMPosition ==
  /\ doc \in DOMDocs
  /\ doc0 = doc
  /\ opts \in {ExtractionOptions(DefaultMinContentLength, cs) : cs \in BOOLEAN}
  /\ strat = DOMPositionStrategy
  /\ returns = <<>>
  /\ ExtractorIdle
  /\ TitleIdle
  /\ SanitizerIdle
  /\ ScrapingIdle

NextDOMPosition == CallDOMPosition

SpecDOMPosition == InitDOMPosition /\ [][NextDOMPosition]_vars

(***************************************************************************)
(* Claims about DOMPositionStrategy, under SpecDOMPosition                 *)
(***************************************************************************)
\* the elements of tree d that container selector k matches
DOMMatches(d, k) == {j \in d.alive : Matches(d.nodes[j], <<DOMPatterns[k]>>)}

\* the descendants of node m at or below a descendant on the removal list
DOMDropped(d, m) ==
  {j \in Descendants(d, m) :
     \E a \in Descendants(d, m) :
       Matches(d.nodes[a], DOMRemovePatterns) /\ (a = j \/ IsAncestor(d, a, j))}

\* the trimmed inner markup of node m without the dropped descendants
DOMMarkupOf(d, m) == TrimSpace(Html([d EXCEPT !.alive = @ \ DOMDropped(d, m)], m))

\* the same for the earliest match of container selector k
DOMMarkup(d, k) == DOMMarkupOf(d, MinOf(DOMMatches(d, k)))

\* the container selectors that are accepted on tree d
DOMAccepting(d) ==
  {k \in 1..Len(DOMPatterns) :
     DOMMatches(d, k) # {} /\ Len(DOMMarkup(d, k)) > DOMMinLength}

\* C21: DOMPositionStrategy.Extract returns the trimmed inner markup of the
\* earliest match of the first container selector in list order that
\* matches and whose markup, after the removal of the descendants on the
\* removal list (script, style and noscript among them, whatever
\* cleanScripts says), is longer than DOMMinLength characters; it fails
\* with the no-content error exactly when no selector is accepted.
C21_DOMPositionFirstAccepted ==
  strat.kind = "dom_position" =>
    \A k \in 1..Len(returns) :
      IF DOMAccepting(returns[k].before) = {}
      THEN /\ returns[k].err = "no content found using DOM position heuristics"
           /\ returns[k].content = <<>>
      ELSE /\ returns[k].err = ""
           /\ returns[k].content =
                DOMMarkup(returns[k].before, MinOf(DOMAccepting(returns[k].before)))

\* C21 witness: with cleanScripts off, a call returned the markup of a
\* selector after an earlier selector in the list matched an element whose
\* trimmed markup has exactly DOMMinLength characters, and some descendant
\* of the accepted element was dropped.
C21_Witness ==
  /\ strat.kind = "dom_position"
  /\ Len(returns) >= 1
  /\ ~opts.CleanScripts
  /\ returns[1].err = ""
  /\ \E k \in 1..(MinOf(DOMAccepting(returns[1].before)) - 1) :
       /\ DOMMatches(returns[1].before, k) # {}
       /\ Len(DOMMarkup(returns[1].before, k)) = DOMMinLength
  /\ DOMDropped(returns[1].before,
                MinOf(DOMMatches(returns[1].before,
                                 MinOf(DOMAccepting(returns[1].before))))) # {}

(***************************************************************************)
(* The void-element normalizers applied to markup.                         *)
(***************************************************************************)
MaxTags == 2

\* the pieces the markup is put together from: void elements without and
\* with attributes, in upper case and self-closed already, elements that
\* are not void, text and a blank line
VoidFragments ==
  {<<"<","b","r",">">>, <<"<","i","m","g"," ","s","r","c","=","\"","/","a",".","p","n","g","\"",">">>, <<"<","i","m","g"," ","a","l","t","=","\"","a","\"",">">>, <<"<","B","R",">">>, <<"<","h","r"," ","/",">">>,
   <<"<","c","o","l","g","r","o","u","p",">">>, <<"<","b","r","o","k","e","r",">">>, <<"<","p",">">>, <<"x">>, <<"\n","\n">>}

VoidInputs == {Flatten(fs) : fs \in UNION {[1..n -> VoidFragments] : n \in 0..MaxTags}}

InitVoid ==
  /\ html \in VoidInputs
  /\ sanitized = <<>>
  /\ doc = NewDocument(<<>>, <<>>)
  /\ doc0 = doc
  /\ opts = ExtractionOptions(DefaultMinContentLength, TRUE)
  /\ StrategyIdle
  /\ ExtractorIdle
  /\ TitleIdle
  /\ ScrapingIdle

\* the normalizer `by` has returned `output` for the markup html
Normalized(by, output) ==
  /\ Len(sanitized) < MaxApplications
  /\ sanitized' = Append(sanitized, [by |-> by, input |-> html, output |-> output])
  /\ html' = output
  /\ UNCHANGED <<docVars, strategyVars, extractorVars, titleVars, scrapingVars>>

\* html = fixSelfClosingTags(html)
CallFixSelfClosingTags == Normalized("fixSelfClosingTags", fixSelfClosingTags(html))

\* extractor.NormalizeForEPUB(html)
CallNormalizeForEPUB == Normalized("NormalizeForEPUB", NormalizeForEPUB(html))

\* cleanContent = normalizeForEPUB(cleanContent)
CallOutputNormalizeForEPUB == Normalized("normalizeForEPUB", normalizeForEPUB(html))

NextVoid == CallFixSelfClosingTags \/ CallNormalizeForEPUB \/ CallOutputNormalizeForEPUB

SpecVoid == InitVoid /\ [][NextVoid]_vars

(***************************************************************************)
(* Claims about the void-element normalizers, under SpecVoid.              *)
(***************************************************************************)
\* the tags of markup s, each from its "<" to the next ">", in order
TagsOf(s) ==
  LET starts == SortedSeq({i \in 1..Len(s) : s[i] = "<"})
  IN  [k \in 1..Len(starts) |->
         SubSeq(s, starts[k], MinOf({j \in starts[k]..Len(s) : s[j] = ">"} \cup {Len(s)}))]

\* the element name of an opening tag, in lower case
TagName(t) == ToLower(SubSeq(t, 2, RunEnd(Class(WordChars, FALSE), t, 2) - 1))

\* tag t is self-closed: it ends in "/>"
IsSelfClosed(t) == Len(t) >= 2 /\ t[Len(t) - 1] = "/"

\* the void elements normalizer `by` lists
ListedBy(by) ==
  IF by = "fixSelfClosingTags" THEN AsSet(selfClosingTags) ELSE AsSet(epubSelfClosingTags)

\* tag t of the input is tag u of the output: a listed void element is
\* self-closed in the output, any other tag is unchanged
TagNormalized(t, u, listed) ==
  IF TagName(t) \in listed THEN TagName(u) = TagName(t) /\ IsSelfClosed(u) ELSE u = t

\* the tags `out` are the tags `in`, normalized, in order; in between are
\* <p> and </p> only, and none where the normalizer wraps no paragraphs
TagsNormalized(in, out, by) ==
  \E f \in [1..Len(in) -> 1..Len(out)] :
    /\ \A i, j \in 1..Len(in) : i < j => f[i] < f[j]
    /\ \A i \in 1..Len(in) : TagNormalized(in[i], out[f[i]], ListedBy(by))
    /\ \A j \in 1..Len(out) :
         (\A i \in 1..Len(in) : f[i] # j) =>
           by = "normalizeForEPUB" /\ out[j] \in {<<"<","p",">">>, <<"<","/","p",">">>}

\* C22: each void-element normalizer returns the markup with every tag of a
\* listed void element in self-closed form and every other tag unchanged
\* byte for byte.
C22_VoidElementsSelfClosed ==
  \A k \in 1..Len(sanitized) :
    TagsNormalized(TagsOf(sanitized[k].input), TagsOf(sanitized[k].output),
                   sanitized[k].by)

\* tag t is an opening tag in lower case with no "/" in it, whose name is a
\* listed void element or has no listed void element as its beginning
Plain(t, listed) ==
  /\ t = ToLower(t)
  /\ \A i \in 1..Len(t) : t[i] # "/"
  /\ \A v \in listed : HasPrefix(TagName(t), v) => TagName(t) = v

\* C22 for markup of plain tags
C22_PlainTagsNormalized ==
  \A k \in 1..Len(sanitized) :
    (\A i \in 1..Len(TagsOf(sanitized[k].input)) :
       Plain(TagsOf(sanitized[k].input)[i], ListedBy(sanitized[k].by)))
      => TagsNormalized(TagsOf(sanitized[k].input), TagsOf(sanitized[k].output),
                        sanitized[k].by)

(***************************************************************************)
(* WebScraper.scrapeByNextLink, one action per step: the start, the        *)
(* marking of the current URL, the rest of a turn of the loop, the return. *)
(* Requester.Fetch is taken by its result; fetching terminates.            *)
(***************************************************************************)
DefaultMaxChapters == 10000

\* NavigationConfig for the next_link method
NextLinkConfig(nextLinkSelector, maxChapters) ==
  [Method |-> "next_link", NextLinkSelector |-> nextLinkSelector,
   MaxChapters |-> maxChapters]

NextLinkConfigs ==
  {NextLinkConfig(s, m) : s \in {<<>>, <<"a",".","n","e","x","t">>}, m \in {0 - 1, 0, 1, 2}}

\* cfg.Scraping.StartURL
StartURL == <<"h","t","t","p",":","/","/","h",".","i","o","/","c","/","1">>

\* the next links of the site's pages: to http://h.io/c/1, /c/2 and /c/3 in
\* three spellings, an empty href and none
NextLinks ==
  {NoLink, LinkTo(<<>>), LinkTo(<<"1">>), LinkTo(<<"/","c","/","2">>), LinkTo(<<"h","t","t","p",":","/","/","h",".","i","o","/","c","/","3">>)}

\* what Requester.Fetch returns for a page: an error, or a body with its
\* first next link
NextLinkFetches ==
  {[err |-> "request failed", page |-> NewDocument(<<>>, <<>>), link |-> NoLink]}
  \cup {[err |-> "", page |-> d, link |-> l] :
          d \in {NewDocument(<<BlockTitle>>, <<BlockPost>>), NewDocument(<<>>, <<BlockPara>>)},
          l \in NextLinks}

\* NewWebScraper(cfg), navigation method "next_link"
InitNextLink ==
  /\ cfg = ContentDetectionConfig("css_selector", SelContent, <<>>, DefaultDensity, <<>>)
  /\ strat = buildStrategy(cfg)
  /\ opts \in {[ExtractionOptions(DefaultMinContentLength, TRUE) EXCEPT !.TitleRegex = r] :
                 r \in {NoPattern, BadPattern}}
  /\ navigation \in NextLinkConfigs
  /\ navigator = [chapters |-> <<>>, visited |-> {}]
  /\ ws = [chapters |-> <<>>]
  /\ scrape = [pc |-> "idle"]
  /\ attempts = <<>>
  /\ doc = 0
  /\ doc0 = 0
  /\ returns = <<>>
  /\ ExtractorIdle
  /\ TitleIdle
  /\ SanitizerIdle
  /\ RequesterIdle
  /\ ConcurrentIdle

\* ScrapeAll, method "next_link": scrapeByNextLink up to its loop
ScrapeAllByNextLink ==
  /\ scrape.pc = "idle"
  /\ navigation.Method = "next_link"
  /\ scrape' = [pc |-> "loop", currentURL |-> StartURL, index |-> 1,
                maxChapters |-> IF navigation.MaxChapters <= 0 THEN DefaultMaxChapters
                                ELSE navigation.MaxChapters]
  /\ UNCHANGED <<navigation, navigator, ws, attempts>>
  /\ UNCHANGED <<extractionVars, configVars, requesterVars, concurrentVars>>

\* for index <= maxChapters { ws.navigator.MarkVisited(currentURL)
NextLinkMarkVisited ==
  /\ scrape.pc = "loop"
  /\ scrape.index <= scrape.maxChapters
  /\ navigator' = [navigator EXCEPT !.visited = @ \cup {scrape.currentURL}]
  /\ scrape' = [scrape EXCEPT !.pc = "fetch"]
  /\ UNCHANGED <<navigation, ws, attempts>>
  /\ UNCHANGED <<extractionVars, configVars, requesterVars, concurrentVars>>

\* the turn after the fetch returned f: out is what became of the chapter,
\* next what FindNextChapterLink returns
NextLinkTurned(f, out, next) ==
  IF f.err # "" THEN scrape' = [pc |-> "returned", err |-> ""] /\ UNCHANGED ws
  ELSE IF out.panic THEN scrape' = [scrape EXCEPT !.pc = "panicked"] /\ UNCHANGED ws
  ELSE /\ ws' = IF out.err # "" THEN ws ELSE [ws EXCEPT !.chapters = Append(@, out.chapter)]
       /\ scrape' = IF ~next.found THEN [pc |-> "returned", err |-> ""]
                    ELSE [scrape EXCEPT !.pc = "loop", !.currentURL = next.url,
                                        !.index = @ + 1]

\* the rest of one turn of the loop of scrapeByNextLink, from Fetch on
NextLinkTurn ==
  /\ scrape.pc = "fetch"
  /\ \E f \in NextLinkFetches :
       /\ attempts' = Append(attempts,
                             [URL |-> scrape.currentURL, Index |-> scrape.index,
                              marked |-> scrape.currentURL \in navigator.visited,
                              err |-> f.err, link |-> f.link])
       /\ NextLinkTurned(f, scrapeChapter(scrape.currentURL, scrape.index, f),
                         FindNextChapterLink(navigation, navigator.visited, f.link,
                                             scrape.currentURL))
  /\ UNCHANGED <<navigation, navigator>>
  /\ UNCHANGED <<extractionVars, configVars, requesterVars, concurrentVars>>

\* index > maxChapters: the loop is over, scrapeByNextLink returns nil
NextLinkReturn ==
  /\ scrape.pc = "loop"
  /\ scrape.index > scrape.maxChapters
  /\ scrape' = [pc |-> "returned", err |-> ""]
  /\ UNCHANGED <<navigation, navigator, ws, attempts>>
  /\ UNCHANGED <<extractionVars, configVars, requesterVars, concurrentVars>>

NextNextLink ==
  \/ ScrapeAllByNextLink
  \/ NextLinkMarkVisited
  \/ NextLinkTurn
  \/ NextLinkReturn

\* the goroutine that runs ScrapeAll keeps running
SpecNextLink == InitNextLink /\ [][NextNextLink]_vars /\ WF_vars(NextNextLink)

(***************************************************************************)
(* Claims about next_link navigation, under SpecNextLink.                  *)
(***************************************************************************)
\* the URL the next link of fetched page k points to
LinkedFrom(k) == ResolveRelativeURL(attempts[k].URL, attempts[k].link.href)

\* the number of pages scrapeByNextLink may fetch
PageLimit ==
  IF navigation.MaxChapters <= 0 THEN DefaultMaxChapters ELSE navigation.MaxChapters

\* every URL was marked visited before it was fetched, no URL was fetched
\* twice, the run went on only along a next link to a URL other than the
\* current one and those fetched before, no more pages were fetched than
\* the limit, and the chapters collected have strictly increasing Index
\* values
NextLinkSafe ==
  /\ \A k \in 1..Len(attempts) : attempts[k].marked
  /\ \A i, j \in 1..Len(attempts) : i < j => attempts[i].URL # attempts[j].URL
  /\ \A k \in 1..(Len(attempts) - 1) :
       /\ attempts[k].link.found /\ attempts[k].link.href # <<>>
       /\ attempts[k + 1].URL = LinkedFrom(k)
       /\ \A i \in 1..k : LinkedFrom(k) # attempts[i].URL
  /\ Len(attempts) <= PageLimit
  /\ \A i, j \in 1..Len(ws.chapters) :
       i < j => ws.chapters[i].Index < ws.chapters[j].Index

\* scrapeByNextLink is over
NextLinkEnded == scrape.pc \in {"returned", "panicked"}

\* C23: next_link navigation marks every URL visited before fetching it,
\* never fetches a URL twice, stops at a next link to the current or an
\* already visited URL, fetches at most maxChapters pages (10000 when
\* maxChapters <= 0), collects chapters of strictly increasing Index, and
\* always comes to an end.
C23_NextLinkTerminates == []NextLinkSafe /\ <>NextLinkEnded

\* C23 witness: the run returned after the next link of the second or a
\* later page led back to the first page.
C23_Witness ==
  /\ scrape.pc = "returned"
  /\ Len(attempts) >= 2
  /\ attempts[Len(attempts)].link.found
  /\ attempts[Len(attempts)].link.href # <<>>
  /\ LinkedFrom(Len(attempts)) = attempts[1].URL
  /\ Len(attempts) < PageLimit

(***************************************************************************)
(* Claims about boilerplate regions and the density winner, under          *)
(* SpecDensity.                                                            *)
(***************************************************************************)
\* the class or id of element a of tree d contains a boilerplate substring
Boilerplate(d, a) ==
  /\ d.nodes[a].kind = "elem"
  /\ \E b \in {W.nav, W.menu, W.sidebar, W.footer, W.header, W.ad, W.comment, W.share,
               W.social} :
       Contains(ToLower(d.nodes[a].class \o <<" ">> \o d.nodes[a].id), b)

\* C24: the element the density strategy selects is no boilerplate element
\* and lies inside none.
C24_WinnerOutsideBoilerplate ==
  (strat.kind = "text_density" /\ returns # <<>> /\ returns[Len(returns)].err = "") =>
    \A a \in returns[Len(returns)].before.alive :
      (a = returns[Len(returns)].node
         \/ IsAncestor(returns[Len(returns)].before, a, returns[Len(returns)].node))
        => ~Boilerplate(returns[Len(returns)].before, a)

\* C24 for the selected element alone
C24_WinnerNotBoilerplate ==
  (strat.kind = "text_density" /\ returns # <<>> /\ returns[Len(returns)].err = "") =>
    ~Boilerplate(returns[Len(returns)].before, returns[Len(returns)].node)

(***************************************************************************)
(* Claims about the success of the density strategy, under SpecStrategy.   *)
(***************************************************************************)
\* every return of the density strategy without error carries markup, and
\* inside a hybrid such a return is the last call of the chain
DensitySuccessesNonEmpty ==
  /\ strat.kind = "text_density" =>
       \A k \in 1..Len(returns) : returns[k].err = "" => returns[k].content # <<>>
  /\ strat.kind = "hybrid" =>
       \A k \in 1..Len(returns) :
         \A c \in 1..Len(returns[k].calls) :
           (returns[k].calls[c].name = "text_density" /\ returns[k].calls[c].err = "")
             => /\ returns[k].calls[c].content # <<>>
                /\ c = Len(returns[k].calls)

\* C25: whenever TextDensityStrategy.Extract returns without an error the
\* markup it returns is not empty, with cleanScripts on or off, and inside
\* a hybrid no sub-strategy is called after it.
C25_DensitySuccessNonEmpty == DensitySuccessesNonEmpty

\* C25 with cleanScripts off
C25_NonEmptyWithoutCleanScripts == ~opts.CleanScripts => DensitySuccessesNonEmpty

(***************************************************************************)
(* Claims about the completion of ExtractTitle, under SpecScrape.          *)
(***************************************************************************)
\* C26: ExtractTitle never aborts: for every document, titleSelector and
\* titleRegex, an uncompilable titleRegex included, it returns a string, so
\* no run of the scraper ends inside the call that computes the title.
C26_ExtractTitleNeverAborts == scrape.pc # "panicked"

\* C26 for the titleRegex settings that compile
C26_CompilableNeverAborts == ~CompileFails(opts.TitleRegex) => scrape.pc # "panicked"

(***************************************************************************)
(* main: LoadConfig with ValidateConfig, then the dry-run summary or the   *)
(* discovery of the chapters by the scraper's ChapterNavigator.            *)
(***************************************************************************)
\* the switch of ValidateConfig over cfg.Navigation.Method
ValidateNavigation(config) ==
  IF config.Method = "url_pattern"
  THEN IF config.URLPattern = <<>>
       THEN "navigation.urlPattern is required for url_pattern method"
       ELSE IF config.NumberEnd < config.NumberStart
       THEN "navigation.numberEnd must be >= navigation.numberStart"
       ELSE ""
  ELSE IF config.Method = "next_link"
  THEN IF config.NextLinkSelector = <<>>
       THEN "navigation.nextLinkSelector is required for next_link method"
       ELSE ""
  ELSE IF config.Method = "toc"
  THEN IF config.TOCUrl = <<>>
       THEN "navigation.tocUrl is required for toc method"
       ELSE IF config.TOCLinkSelector = <<>>
       THEN "navigation.tocLinkSelector is required for toc method"
       ELSE ""
  ELSE "unknown navigation method"

validStrategies == {"css_selector", "text_density", "xpath_regex", "dom_position", "hybrid"}

\* ValidateConfig from the test of the content detection strategy on
ValidateRest(c) ==
  IF c.ContentDetection.Strategy \notin validStrategies
  THEN "unknown content detection strategy"
  ELSE IF c.ContentDetection.Strategy = "css_selector" /\ c.ContentDetection.CSSSelector = <<>>
  THEN "contentDetection.cssSelector is required for css_selector strategy"
  ELSE IF c.ContentDetection.Strategy = "xpath_regex" /\ c.ContentDetection.RegexPatterns = <<>>
  THEN "contentDetection.regexPatterns is required for xpath_regex strategy"
  ELSE IF c.Output.Format # "epub" /\ c.Output.Format # "pdf"
  THEN "output.format must be 'epub' or 'pdf'"
  ELSE IF c.Scraping.Polite.DelayMS < 0
  THEN "scraping.polite.delayMs must be >= 0"
  ELSE ""

\* the error ValidateConfig(cfg) returns ("" is nil)
ValidateConfigErr(c) ==
  IF c.Book.Title = <<>> THEN "book.title is required"
  ELSE IF c.Book.Author = <<>> THEN "book.author is required"
  ELSE IF c.Scraping.StartURL = <<>> /\ c.Navigation.Method # "toc"
  THEN "scraping.startUrl is required (unless using toc navigation)"
  ELSE IF ValidateNavigation(c.Navigation) # "" THEN ValidateNavigation(c.Navigation)
  ELSE ValidateRest(c)

\* ValidateConfig(cfg): the error, and cfg as the call leaves it
ValidateConfig(c) ==
  [err |-> ValidateConfigErr(c),
   config |-> IF ValidateConfigErr(c) = "" /\ c.Scraping.Polite.MaxConcurrent < 1
              THEN [c EXCEPT !.Scraping.Polite.MaxConcurrent = 1]
              ELSE c]

\* totalChapters of printDryRunSummary
TotalChapters(config) == config.NumberEnd - config.NumberStart + 1

\* ChapterNavigator.DiscoverChapters for the methods that fetch no page
DiscoverChapters(config) ==
  IF config.Method = "url_pattern" THEN discoverByPattern(config)
  ELSE [chapters |-> <<>>, err |-> "unknown navigation method"]

\* the configurations LoadConfig parses
LoadedConfigs ==
  {[Book |-> [Title |-> t, Author |-> <<"A">>],
    Scraping |-> [StartURL |-> u, Polite |-> [DelayMS |-> d, MaxConcurrent |-> m]],
    Navigation |-> [Method |-> nm, URLPattern |-> p, NumberStart |-> s, NumberEnd |-> e],
    ContentDetection |-> [Strategy |-> "dom_position", CSSSelector |-> <<>>,
                          RegexPatterns |-> <<>>],
    Output |-> [Format |-> f]] :
     t \in {<<>>, <<"T">>}, u \in {<<>>, StartURL}, d \in {0 - 1, 0}, m \in {0, 2},
     nm \in {"url_pattern", "pages"}, p \in {<<>>, <<"h","t","t","p",":","/","/","h",".","i","o","/","c","{","n","}">>},
     s \in {0 - 1, 0, 1, 2}, e \in 0..MaxChapterNumber, f \in {"epub", "txt"}}

\* main before LoadConfig, run with or without -dry-run
InitDiscover ==
  /\ scrape \in {[pc |-> "main", config |-> c, dryRun |-> d] :
                   c \in LoadedConfigs, d \in BOOLEAN}
  /\ navigation = [Method |-> "none"]
  /\ navigator = [chapters |-> <<>>, visited |-> {}]
  /\ ws = [chapters |-> <<>>]
  /\ attempts = <<>>
  /\ doc = NewDocument(<<>>, <<>>)
  /\ doc0 = doc
  /\ opts = ExtractionOptions(DefaultMinContentLength, TRUE)
  /\ StrategyIdle
  /\ ExtractorIdle
  /\ TitleIdle
  /\ SanitizerIdle
  /\ ConfigIdle
  /\ RequesterIdle
  /\ ConcurrentIdle

\* cfg, err := config.LoadConfig(*configFile): the validation at its end
LoadConfig ==
  /\ scrape.pc = "main"
  /\ LET v == ValidateConfig(scrape.config)
     IN  scrape' = IF v.err # ""
                   THEN [pc |-> "exited", err |-> "invalid configuration", config |-> v.config]
                   ELSE [scrape EXCEPT !.pc = "loaded", !.config = v.config]
  /\ UNCHANGED <<navigation, navigator, ws, attempts>>
  /\ UNCHANGED <<extractionVars, configVars, requesterVars, concurrentVars>>

\* printDryRunSummary(cfg); return
DryRun ==
  /\ scrape.pc = "loaded"
  /\ scrape.dryRun
  /\ scrape' = [pc |-> "summarized", config |-> scrape.config,
                total |-> TotalChapters(scrape.config.Navigation)]
  /\ UNCHANGED <<navigation, navigator, ws, attempts>>
  /\ UNCHANGED <<extractionVars, configVars, requesterVars, concurrentVars>>

\* scraper.NewWebScraper(cfg), then ws.navigator.DiscoverChapters(startURL)
Discover ==
  /\ scrape.pc = "loaded"
  /\ ~scrape.dryRun
  /\ LET found == DiscoverChapters(scrape.config.Navigation)
     IN  /\ navigation' = scrape.config.Navigation
         /\ navigator' = [navigator EXCEPT !.chapters = found.chapters]
         /\ scrape' = [pc |-> "discovered", config |-> scrape.config, err |-> found.err,
                       chapters |-> found.chapters]
  /\ UNCHANGED <<ws, attempts>>
  /\ UNCHANGED <<extractionVars, configVars, requesterVars, concurrentVars>>

NextDiscover == LoadConfig \/ DryRun \/ Discover

SpecDiscover == InitDiscover /\ [][NextDiscover]_vars

(***************************************************************************)
(* Claims about validation and chapter discovery, under SpecDiscover.      *)
(***************************************************************************)
\* what discovery returns for an accepted url_pattern configuration is the
\* range numberStart..numberEnd: no error, Index 1..n in order, one URL per
\* number, n the total of the dry run
DiscoversTheRange(config, found) ==
  /\ found.err = ""
  /\ Len(found.chapters) = TotalChapters(config)
  /\ \A k \in 1..Len(found.chapters) :
       /\ found.chapters[k].Index = k
       /\ found.chapters[k].URL = URLFromPattern(config.URLPattern, config.NumberStart + k - 1)

\* C27: for every configuration accepted by ValidateConfig with navigation
\* method url_pattern, DiscoverChapters succeeds and returns exactly
\* numberEnd - numberStart + 1 chapters, the total the dry run reports, with
\* Index 1..n in order and the URLs of numberStart..numberEnd.
C27_ValidationAgreesWithDiscovery ==
  (scrape.pc = "discovered" /\ scrape.config.Navigation.Method = "url_pattern") =>
    DiscoversTheRange(scrape.config.Navigation, scrape)

\* C27 for the configurations with numberStart at least 1
C27_AgreesFromNumberStartOne ==
  (/\ scrape.pc = "discovered"
   /\ scrape.config.Navigation.Method = "url_pattern"
   /\ scrape.config.Navigation.NumberStart >= 1) =>
    DiscoversTheRange(scrape.config.Navigation, scrape)

\* the dry run of an accepted url_pattern configuration reports a total of
\* at least one chapter
C27_DryRunTotalPositive ==
  (scrape.pc = "summarized" /\ scrape.config.Navigation.Method = "url_pattern") =>
    scrape.total >= 1

(***************************************************************************)
(* Claims about the requests for robots.txt, under SpecRequester.          *)
(***************************************************************************)
\* no two requests for the robots.txt of one domain less than an hour apart
OncePerHour ==
  \A i, j \in 1..Len(robotsTxt.requests) :
    (i < j /\ robotsTxt.requests[i].domain = robotsTxt.requests[j].domain)
      => robotsTxt.requests[j].at - robotsTxt.requests[i].at >= Hour

\* C28: a Requester fetches the robots.txt of a domain at most once per
\* hour: after any sequence or interleaving of Fetch calls to URLs of one
\* domain within an hour at most one request for its robots.txt has been
\* sent, also when that request fails or is answered with a status other
\* than 200, and when Fetch is called concurrently.
C28_RobotsRequestedOncePerHour == OncePerHour

\* C28 for one goroutine and a host that answers 200
C28_OnceWhenSequentialAndFound ==
  (Cardinality(DOMAIN fetch) = 1 /\ robotsTxt.status = "ok") => OncePerHour

====
